---- MODULE Spec2Model ----
(***************************************************************************)
(* Model of the inventory CLI's generic entity repository                  *)
(* (inventory/db/repository.py) instantiated for the organizations table   *)
(* (inventory/db/repositories/organization.py, inventory/models/           *)
(* organization.py), together with the slug derivation.                    *)
(*                                                                         *)
(* Strings that the code inspects character by character (names, slugs)    *)
(* are sequences of one-character strings.  An Optional[...] value is a    *)
(* sequence of length 0 (None / SQL NULL) or 1 (the value).                *)
(***************************************************************************)
EXTENDS Integers, Sequences, FiniteSets, TLC

\* organizations : the committed rows of the organizations table
\* nextId        : the id the store gives the next inserted row
\* last          : the last repository call: its arguments and how it ended
\* slugIn        : the name handed to generate_slug
\* slugOut       : generate_slug(slugIn)
\* slugAgain     : generate_slug(slugOut)
\* slugPc        : how far the caller of generate_slug has come
\* listed        : the last list_all call: its arguments and its result
\* connOpen      : the number of connections open
\* connPc        : how far the operation using get_connection has come
\* connOp        : which kind of operation that is
\* connEnd       : how its body ended
\* connStarted   : the number of operations started so far
\* macIn         : the value handed to validate_mac
\* macOut        : what validate_mac made of macIn
\* macAgain      : what validate_mac made of the value it returned
\* macPc         : how far the caller of validate_mac has come
\* devices       : the committed rows of the devices table
\* devLast       : the last device operation and how it ended
\* networks      : the committed rows of the networks table
\* netLast       : the last network operation, its arguments and how it ended
\* sites         : the committed rows of the sites table
\* siteLast      : the last site operation, its arguments and how it ended
\* built         : the last device payload constructed: its arguments and the result
\* famOrgs       : the slugs of the committed organizations
\* famRows       : the committed sites, zones, devices and networks, each with its parent
\* famLast       : the last create command, the parent it named and how it ended
\* joinDb        : the tables the entity-specific read queries run on
\* joinOut       : the last such query, its argument and the rows it returned
\* raceRows      : the devices table two processes work on
\* racePc        : where the device command of the first process stands: before its SELECT or between its SELECT and its UPDATE
\* raceCmd       : the command the first process runs and its text option
\* raceLast      : how the last command of the first process ended: what it printed and how many rows its UPDATE changed
\* raceRuns      : the number of commands the first process has begun
\* migFiles      : the *.sql files of the migrations directory, in the order glob yields them
\* migFails      : the migration files whose SQL raises when executed
\* migPc         : where db migrate stands
\* migTodo       : the migration files db migrate has still to run, in its order
\* migDone       : the migration files committed to the database, in the order of their commits
\* migPending    : the migration file executed in the open transaction, if any
\* migRun        : the migration files db migrate has executed, in order
\* migConn       : whether db migrate has opened a connection
\* migEnd        : how db migrate ended: the flag it was run with and its exit code, if it has ended
\* zoneTable     : the zones table the device commands look zones up in
\* zoneDevs      : the devices table with the site and the zone of each device
\* zoneLast      : the last device command that named a zone, its arguments and how it ended
VARIABLES organizations, nextId, last, slugIn, slugOut, slugAgain, slugPc,
          listed, connOpen, connPc, connOp, connEnd, connStarted,
          macIn, macOut, macAgain, macPc, devices, devLast,
          networks, netLast, sites, siteLast,
          built,
          famOrgs, famRows, famLast,
          joinDb, joinOut,
          raceRows, racePc, raceCmd, raceLast, raceRuns,
          migFiles, migFails, migPc, migTodo, migDone, migPending, migRun, migConn, migEnd,
          zoneTable, zoneDevs, zoneLast

vars == <<organizations, nextId, last, slugIn, slugOut, slugAgain, slugPc,
          listed, connOpen, connPc, connOp, connEnd, connStarted,
          macIn, macOut, macAgain, macPc, devices, devLast,
          networks, netLast, sites, siteLast,
          built,
          famOrgs, famRows, famLast,
          joinDb, joinOut,
          raceRows, racePc, raceCmd, raceLast, raceRuns,
          migFiles, migFails, migPc, migTodo, migDone, migPending, migRun, migConn, migEnd,
          zoneTable, zoneDevs, zoneLast>>

macVars == <<macIn, macOut, macAgain, macPc>>

devVars == <<devices, devLast>>

netVars == <<networks, netLast>>

siteVars == <<sites, siteLast>>

connVars == <<connOpen, connPc, connOp, connEnd, connStarted>>

repoVars == <<organizations, nextId, last>>

slugVars == <<slugIn, slugOut, slugAgain, slugPc>>

(* ------------------- further variable groups --------------------------- *)

\* everything the specifications above are about
coreVars ==
    <<repoVars, slugVars, listed, connVars, macVars, devVars, netVars, siteVars>>

payVars == <<built>>

famVars == <<famOrgs, famRows, famLast>>

joinVars == <<joinDb, joinOut>>

raceVars == <<raceRows, racePc, raceCmd, raceLast, raceRuns>>

migVars == <<migFiles, migFails, migPc, migTodo, migDone, migPending, migRun, migConn, migEnd>>

zdevVars == <<zoneTable, zoneDevs, zoneLast>>

\* the variables of the specifications below
laterVars == <<payVars, famVars, joinVars, raceVars, migVars, zdevVars>>

payFrame == <<coreVars, famVars, joinVars, raceVars, migVars, zdevVars>>

famFrame == <<coreVars, payVars, joinVars, raceVars, migVars, zdevVars>>

joinFrame == <<coreVars, payVars, famVars, raceVars, migVars, zdevVars>>

raceFrame == <<coreVars, payVars, famVars, joinVars, migVars, zdevVars>>

migFrame == <<coreVars, payVars, famVars, joinVars, raceVars, zdevVars>>

zdevFrame == <<coreVars, payVars, famVars, joinVars, raceVars, migVars>>

(* --------------------------- frames ------------------------------------ *)

\* the variables of the other specifications, which the repository calls on
\* organizations and generate_slug leave alone
extVars ==
    <<listed, connVars, macVars, devVars, netVars, siteVars, laterVars>>

\* what list_all leaves alone
listFrame ==
    <<repoVars, slugVars, connVars, macVars, devVars, netVars, siteVars,
      laterVars>>

\* what opening and closing a connection leaves alone
connFrame ==
    <<repoVars, slugVars, listed, macVars, devVars, netVars, siteVars,
      laterVars>>

\* what validate_mac leaves alone
macFrame ==
    <<repoVars, slugVars, listed, connVars, devVars, netVars, siteVars,
      laterVars>>

\* what the device operations leave alone
devFrame ==
    <<repoVars, slugVars, listed, connVars, macVars, netVars, siteVars,
      laterVars>>

\* what the network operations leave alone
netFrame ==
    <<repoVars, slugVars, listed, connVars, macVars, devVars, siteVars,
      laterVars>>

\* what the site operations leave alone
siteFrame ==
    <<repoVars, slugVars, listed, connVars, macVars, devVars, netVars,
      laterVars>>

(* ------------------------------ bounds --------------------------------- *)

\* longest name fed to generate_slug in SlugSpec
MaxNameLen == 4

\* number of ids the store hands out before create is no longer attempted
MaxId == 2

\* largest number of hex digits in the values handed to validate_mac
MaxMacDigits == 13

\* number of operations that open a connection, one after the other
MaxConnOps == 6

\* largest number of migration files
MaxMigrations == 3

\* largest number of device commands the first of two processes runs
MaxRaceCmds == 2

\* largest number of devices in the tables the read queries are run on
MaxJoinDevices == 2

\* largest number of rows in the tables list_all is run on
MaxListRows == 2

(* --------------------------- characters -------------------------------- *)

\* the alphabet names are drawn from: lower case, upper case, a digit,
\* a hyphen, a space and an apostrophe
Chars == {"a", "b", "A", "B", "1", "-", " ", "'"}

\* str.lower() on one character
LowerChar(c) == CASE c = "A" -> "a" [] c = "B" -> "b" [] OTHER -> c

\* the character class [a-z0-9]
IsAlnum(c) == c \in {"a", "b", "1"}

\* name.lower()
Lower(s) == [i \in DOMAIN s |-> LowerChar(s[i])]

\* s without its longest prefix of characters outside [a-z0-9]
RECURSIVE SkipRun(_)
SkipRun(s) ==
    IF s = <<>> THEN <<>>
    ELSE IF IsAlnum(Head(s)) THEN s ELSE SkipRun(Tail(s))

\* mutant of ReSub: the pattern without "+", every character outside
\* [a-z0-9] becomes its own hyphen
RECURSIVE ReSubEachChar(_)
ReSubEachChar(s) ==
    IF s = <<>> THEN <<>>
    ELSE IF IsAlnum(Head(s)) THEN <<Head(s)>> \o ReSubEachChar(Tail(s))
    ELSE <<"-">> \o ReSubEachChar(Tail(s))

\* re.sub(r"[^a-z0-9]+", "-", s): scanning left to right, each leftmost
\* longest match of the pattern is replaced by one hyphen
RECURSIVE ReSub(_)
ReSub(s) ==
    IF s = <<>> THEN <<>>
    ELSE IF IsAlnum(Head(s)) THEN <<Head(s)>> \o ReSub(Tail(s))
    ELSE <<"-">> \o ReSub(SkipRun(Tail(s)))

\* str.lstrip("-")
RECURSIVE LStrip(_)
LStrip(s) ==
    IF s = <<>> THEN <<>>
    ELSE IF Head(s) = "-" THEN LStrip(Tail(s)) ELSE s

\* str.rstrip("-")
RECURSIVE RStrip(_)
RStrip(s) ==
    IF s = <<>> THEN <<>>
    ELSE IF s[Len(s)] = "-" THEN RStrip(SubSeq(s, 1, Len(s) - 1)) ELSE s

\* mutant of Strip: only the leading hyphens are removed
StripLeadingOnly(s) == LStrip(s)

\* str.strip("-")
Strip(s) == RStrip(LStrip(s))

\* mutant of generate_slug: the name is not lower-cased
generate_slug_no_lower(name) == Strip(ReSub(name))

\* BaseRepository.generate_slug
generate_slug(name) == Strip(ReSub(Lower(name)))

\* all sequences over Chars of length at most n
NamesUpTo(n) == UNION {[1..k -> Chars] : k \in 0..n}

(* ------------------- payloads (pydantic models) ------------------------ *)

\* OrgType = Literal["home", "business", "lab", "other"]
OrgType == {"home", "business", "lab", "other"}

\* Field(..., min_length=1, max_length=255) on the name of every entity
NameMinLength == 1
NameMaxLength == 255

\* the attributes a payload record carries; an attribute that is None is <<>>
PayloadFields == {"name", "slug", "type", "description", "is_active"}

\* a payload none of whose attributes is set (also the "no payload" marker
\* of the calls that take none)
NoData ==
    [name |-> <<>>, slug |-> <<>>, type |-> <<>>, description |-> <<>>,
     is_active |-> <<>>, fields_set |-> {}]

\* names the callers create entities with: two of them derive the same slug
CreateNames == {<<"A", " ", "b">>, <<"a", "-", "b">>}

\* the slug a caller may supply in a creation payload
SuppliedSlugs == {<<"b">>}

\* OrganizationBase: what the validators accept
ValidOrganization(name, type) ==
    /\ Len(name) >= NameMinLength
    /\ Len(name) <= NameMaxLength
    /\ type \in OrgType

\* Creation payloads (CreateT).  name is required; type and is_active have
\* non-None defaults (left at "home" and True here), description defaults to
\* None; fields_set is pydantic's model_fields_set, the attributes the caller
\* passed.  The generic create() also accepts a payload that carries a slug.
CreatePayloads ==
    { [name |-> <<n>>, slug |-> sl, type |-> <<"home">>, description |-> d.v,
       is_active |-> <<TRUE>>,
       fields_set |-> {"name"} \cup (IF sl = <<>> THEN {} ELSE {"slug"})
                      \cup (IF d.given THEN {"description"} ELSE {})] :
        n \in {x \in CreateNames : ValidOrganization(x, "home")},
        sl \in {<<>>} \cup {<<x>> : x \in SuppliedSlugs},
        d \in {[given |-> FALSE, v |-> <<>>], [given |-> TRUE, v |-> <<>>],
               [given |-> TRUE, v |-> <<"d">>]} }

\* OrganizationUpdate payloads: every attribute Optional with default None and
\* no validator, so the empty name is accepted; description may be passed as
\* None explicitly; is_active is left unset here
UpdatePayloads ==
    { [name |-> n.v, slug |-> <<>>, type |-> <<>>, description |-> d.v,
       is_active |-> a.v,
       fields_set |-> (IF n.given THEN {"name"} ELSE {})
                      \cup (IF d.given THEN {"description"} ELSE {})
                      \cup (IF a.given THEN {"is_active"} ELSE {})] :
        n \in {[given |-> FALSE, v |-> <<>>], [given |-> TRUE, v |-> << <<>> >>],
               [given |-> TRUE, v |-> << <<"a", "-", "b">> >>]},
        d \in {[given |-> FALSE, v |-> <<>>], [given |-> TRUE, v |-> <<>>],
               [given |-> TRUE, v |-> <<"d">>]},
        a \in {[given |-> FALSE, v |-> <<>>]} }

\* the slugs the callers look up, update and delete; the last one is never
\* the slug of a row
SlugArgs == {<<"a", "-", "b">>, <<"b">>, <<"1">>}

\* whether the store fails with a connectivity error during a call (at
\* psycopg.connect or at cur.execute: either way before anything is written)
Faults == {"none", "down"}

\* mutant of ModelDumpCreate: the optional description is not dumped
ModelDumpCreateNoDescription(data) ==
    {k \in PayloadFields : data[k] # <<>>} \ {"description"}

\* data.model_dump(exclude_none=True): the names of the dumped attributes
ModelDumpCreate(data) == {k \in PayloadFields : data[k] # <<>>}

\* data.model_dump(exclude_none=True, exclude_unset=True)
ModelDumpUpdate(data) == {k \in data.fields_set : data[k] # <<>>}

(* ------------------------------ the store ------------------------------ *)

\* the rows of a table that have the given slug
RowsWithSlug(table, slug) == {r \in table : r.slug = slug}

\* INSERT INTO organizations (columns) VALUES (...) RETURNING *, on a table
\* whose slug column is UNIQUE: a column the statement does not name takes
\* its default (NULL for description).  The result is the store's error
\* ("" when there is none), the table as the open transaction sees it and
\* the returned rows.
StoreInsert(table, id, cols, vals) ==
    LET row == [id |-> id,
                slug |-> vals.slug[1],
                name |-> vals.name[1],
                type |-> vals.type[1],
                description |-> IF "description" \in cols
                                THEN vals.description ELSE <<>>,
                is_active |-> vals.is_active[1]]
    IN  IF RowsWithSlug(table, row.slug) # {}
        THEN [error |-> "UniqueViolation", work |-> table, rows |-> {}]
        ELSE [error |-> "", work |-> table \cup {row}, rows |-> {row}]

\* mutant of SetColumns: a new name also sets the slug derived from it
SetColumnsAndSlug(r, cols, vals) ==
    [r EXCEPT !.name = IF "name" \in cols THEN vals.name[1] ELSE @,
              !.slug = IF "name" \in cols
                       THEN generate_slug(vals.name[1]) ELSE @,
              !.description = IF "description" \in cols
                              THEN vals.description ELSE @,
              !.is_active = IF "is_active" \in cols
                            THEN vals.is_active[1] ELSE @]

\* the row after SET k = value for every dumped attribute k
SetColumns(r, cols, vals) ==
    [r EXCEPT !.name = IF "name" \in cols THEN vals.name[1] ELSE @,
              !.description = IF "description" \in cols
                              THEN vals.description ELSE @,
              !.is_active = IF "is_active" \in cols
                            THEN vals.is_active[1] ELSE @]

\* mutant of ExecUpdate: the statement has no WHERE clause
ExecUpdateAllRows(table, slug, cols, vals) ==
    [error |-> "",
     work |-> {SetColumns(r, cols, vals) : r \in table},
     rows |-> {SetColumns(r, cols, vals) : r \in RowsWithSlug(table, slug)}]

\* UPDATE organizations SET ... WHERE slug = %s RETURNING *
ExecUpdate(table, slug, cols, vals) ==
    [error |-> "",
     work |-> {IF r.slug = slug THEN SetColumns(r, cols, vals) ELSE r :
                 r \in table},
     rows |-> {SetColumns(r, cols, vals) : r \in RowsWithSlug(table, slug)}]

\* DELETE FROM organizations WHERE slug = %s RETURNING id
ExecDelete(table, slug) ==
    [error |-> "",
     work |-> table \ RowsWithSlug(table, slug),
     rows |-> RowsWithSlug(table, slug)]

(* ------------------------- call outcomes ------------------------------- *)

\* the call returns: committed is the table the store holds afterwards
Return(committed, ret, flag) ==
    [table |-> committed, kind |-> "return", error |-> "", storeError |-> "",
     ret |-> ret, flag |-> flag]

\* mutant of Propagate: the error is caught and the call returns nothing
Swallow(committed, error, storeError) ==
    [table |-> committed, kind |-> "return", error |-> "",
     storeError |-> storeError, ret |-> {}, flag |-> FALSE]

\* an exception leaves the with-blocks: get_connection closes the connection
\* in its finally clause and the exception goes on to the caller
Propagate(committed, error, storeError) ==
    [table |-> committed, kind |-> "raise", error |-> error,
     storeError |-> storeError, ret |-> {}, flag |-> FALSE]

\* self.model_class(**row): the Organization validators on a stored row
Materializes(row) == ValidOrganization(row.name, row.type)

\* mutant of MaterializeOrNone: the row is returned without validation
MaterializeUnchecked(committed, rows) == Return(committed, rows, FALSE)

\* mutant of MaterializeOrNone: the "if row" test is missing, so building the
\* entity from no row raises
MaterializeAlways(committed, rows) ==
    IF rows = {}
    THEN Propagate(committed, "TypeError", "")
    ELSE IF \A r \in rows : Materializes(r)
    THEN Return(committed, rows, FALSE)
    ELSE Propagate(committed, "ValidationError", "")

\* return self.model_class(**row) if row else None, with the store holding
\* committed at that point
MaterializeOrNone(committed, rows) ==
    IF \A r \in rows : Materializes(r)
    THEN Return(committed, rows, FALSE)
    ELSE Propagate(committed, "ValidationError", "")

(* ---------------------- repository operations -------------------------- *)

\* a connectivity failure of the store, raised by psycopg
OperationalError == "OperationalError"

\* BaseRepository.get_by_slug
GetBySlugOutcome(table, slug, fault) ==
    IF fault # "none"
    THEN Propagate(table, OperationalError, OperationalError)
    ELSE MaterializeOrNone(table, RowsWithSlug(table, slug))

\* the rows of a table with the given id
RowsWithId(table, id) == {r \in table : r.id = id}

\* BaseRepository.get_by_id
GetByIdOutcome(table, id, fault) ==
    IF fault # "none"
    THEN Propagate(table, OperationalError, OperationalError)
    ELSE MaterializeOrNone(table, RowsWithId(table, id))

\* BaseRepository.exists: SELECT 1 ... WHERE slug = %s LIMIT 1, the result is
\* "fetchone() is not None"
ExistsOutcome(table, slug, fault) ==
    IF fault # "none"
    THEN Propagate(table, OperationalError, OperationalError)
    ELSE Return(table, {}, RowsWithSlug(table, slug) # {})

\* mutant of FieldsForCreate: the slug is always derived from the name, a
\* supplied slug is overwritten
FieldsForCreateAlwaysDerive(data) ==
    [cols |-> ModelDumpCreate(data) \cup {"slug"},
     vals |-> [data EXCEPT !.slug = <<generate_slug(data.name[1])>>]]

\* mutant of FieldsForCreate: the slug is derived without lower-casing
FieldsForCreateNoLower(data) ==
    LET cols == ModelDumpCreate(data)
    IN  IF "slug" \notin cols /\ "name" \in cols
        THEN [cols |-> cols \cup {"slug"},
              vals |-> [data EXCEPT
                          !.slug = <<generate_slug_no_lower(data.name[1])>>]]
        ELSE [cols |-> cols, vals |-> data]

\* create, the fields of the INSERT: the dumped payload, plus a slug generated
\* from the name if the payload provides none
FieldsForCreate(data) ==
    LET cols == ModelDumpCreate(data)
    IN  IF "slug" \notin cols /\ "name" \in cols
        THEN [cols |-> cols \cup {"slug"},
              vals |-> [data EXCEPT !.slug = <<generate_slug(data.name[1])>>]]
        ELSE [cols |-> cols, vals |-> data]

\* BaseRepository.create: connect, INSERT ... RETURNING *, commit, then build
\* the entity from the returned row.  An error before the commit leaves the
\* with-blocks with the transaction open: closing the connection discards it.
CreateOutcome(table, id, data, fault) ==
    LET f == FieldsForCreate(data)
        x == StoreInsert(table, id, f.cols, f.vals)
    IN  IF fault # "none"
        THEN Propagate(table, OperationalError, OperationalError)
        ELSE IF x.error # ""
        THEN Propagate(table, x.error, x.error)
        ELSE MaterializeOrNone(x.work, x.rows)

\* mutant of EmptyUpdate: an empty payload returns nothing
EmptyUpdateReturnsNone(table, slug, fault) == Return(table, {}, FALSE)

\* update, "if not fields: return self.get_by_slug(slug)"
EmptyUpdate(table, slug, fault) == GetBySlugOutcome(table, slug, fault)

\* BaseRepository.update: dump the payload, UPDATE ... WHERE slug = %s
\* RETURNING *, commit, then build the entity from the returned row
UpdateOutcome(table, slug, data, fault) ==
    LET cols == ModelDumpUpdate(data)
        x == ExecUpdate(table, slug, cols, data)
    IN  IF cols = {}
        THEN EmptyUpdate(table, slug, fault)
        ELSE IF fault # "none"
        THEN Propagate(table, OperationalError, OperationalError)
        ELSE MaterializeOrNone(x.work, x.rows)

\* mutant of DeleteOutcome: the commit is missing, so closing the connection
\* rolls the DELETE back
DeleteWithoutCommit(table, slug, fault) ==
    LET x == ExecDelete(table, slug)
    IN  IF fault # "none"
        THEN Propagate(table, OperationalError, OperationalError)
        ELSE Return(table, {}, x.rows # {})

\* BaseRepository.delete: DELETE ... RETURNING id, commit, result is not None
DeleteOutcome(table, slug, fault) ==
    LET x == ExecDelete(table, slug)
    IN  IF fault # "none"
        THEN Propagate(table, OperationalError, OperationalError)
        ELSE Return(x.work, {}, x.rows # {})

(* ------------------------------ actions -------------------------------- *)

\* what the last call was and how it ended
Called(op, slug, data, o) ==
    [op |-> op, slug |-> slug, id |-> 0, data |-> data, kind |-> o.kind,
     error |-> o.error, storeError |-> o.storeError, ret |-> o.ret,
     flag |-> o.flag]

Create ==
    \E data \in CreatePayloads, fault \in Faults :
        LET o == CreateOutcome(organizations, nextId, data, fault)
        IN  /\ nextId <= MaxId
            /\ organizations' = o.table
            /\ nextId' = IF o.table # organizations THEN nextId + 1 ELSE nextId
            /\ last' = Called("create", <<>>, data, o)
            /\ UNCHANGED <<slugVars, extVars>>

Update ==
    \E slug \in SlugArgs, data \in UpdatePayloads, fault \in Faults :
        LET o == UpdateOutcome(organizations, slug, data, fault)
        IN  /\ organizations' = o.table
            /\ last' = Called("update", slug, data, o)
            /\ UNCHANGED <<nextId, slugVars, extVars>>

Delete ==
    \E slug \in SlugArgs, fault \in Faults :
        LET o == DeleteOutcome(organizations, slug, fault)
        IN  /\ organizations' = o.table
            /\ last' = Called("delete", slug, NoData, o)
            /\ UNCHANGED <<nextId, slugVars, extVars>>

GetBySlug ==
    \E slug \in SlugArgs, fault \in Faults :
        LET o == GetBySlugOutcome(organizations, slug, fault)
        IN  /\ organizations' = o.table
            /\ last' = Called("get_by_slug", slug, NoData, o)
            /\ UNCHANGED <<nextId, slugVars, extVars>>

\* the ids get_by_id is called with
IdArgs == 1 .. MaxId

GetById ==
    \E id \in IdArgs, fault \in Faults :
        LET o == GetByIdOutcome(organizations, id, fault)
        IN  /\ organizations' = o.table
            /\ last' = [Called("get_by_id", <<>>, NoData, o) EXCEPT !.id = id]
            /\ UNCHANGED <<nextId, slugVars, extVars>>

Exists ==
    \E slug \in SlugArgs, fault \in Faults :
        LET o == ExistsOutcome(organizations, slug, fault)
        IN  /\ organizations' = o.table
            /\ last' = Called("exists", slug, NoData, o)
            /\ UNCHANGED <<nextId, slugVars, extVars>>

\* generate_slug applied to a name
Slugify ==
    /\ slugPc = "start"
    /\ slugOut' = generate_slug(slugIn)
    /\ slugPc' = "done"
    /\ UNCHANGED <<slugIn, slugAgain, repoVars, extVars>>

\* generate_slug applied to its own result
Reslugify ==
    /\ slugPc = "done"
    /\ slugAgain' = generate_slug(slugOut)
    /\ slugPc' = "again"
    /\ UNCHANGED <<slugIn, slugOut, repoVars, extVars>>

(* --------------------------- specifications ---------------------------- *)

\* list_all called without filters
NoFilters ==
    [cols |-> {}, vals |-> [is_active |-> TRUE, description |-> <<>>]]

\* before any list_all call
NoListing ==
    [filters |-> NoFilters, order_by |-> "", limit |-> 0, kind |-> "none",
     error |-> "", rows |-> <<>>]

\* list_all not yet called
ListIdle == listed = NoListing

\* generate_slug not in use
SlugIdle ==
    /\ slugIn = <<>>
    /\ slugOut = <<>>
    /\ slugAgain = <<>>
    /\ slugPc = "idle"

\* no operation has opened a connection
ConnIdle ==
    /\ connOpen = 0
    /\ connPc = "idle"
    /\ connOp = ""
    /\ connEnd = ""
    /\ connStarted = 0

\* the outcome of a validator: whether it accepted, and the value it returned
Accepted(value) == [ok |-> TRUE, value |-> value]

\* the validator raised ValueError
Rejected == [ok |-> FALSE, value |-> <<>>]

\* validate_mac not in use
MacIdle ==
    /\ macIn = <<>>
    /\ macOut = Rejected
    /\ macAgain = Rejected
    /\ macPc = "idle"

\* how a device operation ended: kind is "return", "raise" (an exception
\* reaches the caller), "exit" (typer.Exit(1)) or "abort" (typer.Abort)
Ended(op, kind, error) == [op |-> op, kind |-> kind, error |-> error]

\* no device and no device operation yet
DevIdle ==
    /\ devices = {}
    /\ devLast = Ended("none", "return", "")

\* a network operation: the type and VLAN id it was given, whether the
\* payload was accepted (commands build none), whether a statement reached
\* the store, and how it ended
NetEnded(op, type, vlan, accepted, sent, kind, error) ==
    [op |-> op, type |-> type, vlan |-> vlan, accepted |-> accepted,
     sent |-> sent, kind |-> kind, error |-> error]

\* no network and no network operation yet
NetIdle ==
    /\ networks = {}
    /\ netLast = NetEnded("none", <<>>, <<>>, FALSE, FALSE, "return", "")

\* a site operation: the type it was given, whether the payload was
\* accepted, whether a statement reached the store, and how it ended
SiteEnded(op, type, accepted, sent, kind, error) ==
    [op |-> op, type |-> type, accepted |-> accepted, sent |-> sent,
     kind |-> kind, error |-> error]

\* no site and no site operation yet
SiteIdle ==
    /\ sites = {}
    /\ siteLast = SiteEnded("none", <<>>, FALSE, FALSE, "return", "")

\* a device payload construction: the model, the keyword arguments given
\* (<<>> is "not given"), whether the model accepted them, the attributes the
\* payload then has and its usage_status attribute (<<>> when it has none)
Built(model, status, usage, mac, ok, attrs, usage_status) ==
    [model |-> model, status |-> status, usage |-> usage, mac |-> mac,
     ok |-> ok, attrs |-> attrs, usage_status |-> usage_status]

\* no payload constructed yet
PayIdle == built = Built("none", <<>>, <<>>, <<>>, FALSE, {}, <<>>)

\* a create command: the parent slug it was given, how it ended ("return" or
\* "exit") and its exit code
FamEnded(op, parent, kind, code) ==
    [op |-> op, parent |-> parent, kind |-> kind, code |-> code]

\* no organization, no row below one and no create command yet
FamIdle ==
    /\ famOrgs = {}
    /\ famRows = {}
    /\ famLast = FamEnded("none", "", "return", 0)

\* a read query, its argument and the rows fetched
Fetched(query, key, rows) == [query |-> query, key |-> key, rows |-> rows]

\* no tables drawn and no read query run
JoinIdle ==
    /\ joinDb = [devices |-> {}, sites |-> {}]
    /\ joinOut = Fetched("none", 0, {})

\* a device command and its text option
RaceCmd(op, text) == [op |-> op, text |-> text]

\* how a device command ended, what it printed and the rows it updated
RaceEnded(op, kind, printed, rowcount) ==
    [op |-> op, kind |-> kind, printed |-> printed, rowcount |-> rowcount]

\* no table and no command of the two processes
RaceIdle ==
    /\ raceRows = {}
    /\ racePc = "idle"
    /\ raceCmd = RaceCmd("none", <<>>)
    /\ raceLast = RaceEnded("none", "return", "none", 0)
    /\ raceRuns = 0

\* how db migrate ended: its --dry-run flag and its exit code
MigEnded(dry_run, code) == [dry_run |-> dry_run, code |-> code]

\* no migration files and db migrate not begun
MigIdle ==
    /\ migFiles = <<>>
    /\ migFails = {}
    /\ migPc = "start"
    /\ migTodo = <<>>
    /\ migDone = <<>>
    /\ migPending = <<>>
    /\ migRun = <<>>
    /\ migConn = FALSE
    /\ migEnd = MigEnded(FALSE, <<>>)

\* a device command, the device, site and zone it named and how it ended
ZoneEnded(op, slug, site, zone, kind) ==
    [op |-> op, slug |-> slug, site |-> site, zone |-> zone, kind |-> kind]

\* no zone, no device and no device command
ZdevIdle ==
    /\ zoneTable = {}
    /\ zoneDevs = {}
    /\ zoneLast = ZoneEnded("none", "", "", <<>>, "return")

\* the variables of the specifications below at rest
LaterIdle == PayIdle /\ FamIdle /\ JoinIdle /\ RaceIdle /\ MigIdle /\ ZdevIdle

\* the variables of the other specifications at rest
ExtIdle ==
    /\ ListIdle /\ ConnIdle /\ MacIdle /\ DevIdle /\ NetIdle /\ SiteIdle
    /\ LaterIdle

RepoInit ==
    /\ organizations = {}
    /\ nextId = 1
    /\ last = Called("none", <<>>, NoData, Return({}, {}, FALSE))

Init ==
    /\ RepoInit
    /\ ExtIdle
    /\ slugIn = <<>>
    /\ slugOut = <<>>
    /\ slugAgain = <<>>
    /\ slugPc = "idle"

Next == Create \/ Update \/ Delete \/ GetBySlug \/ GetById \/ Exists

\* the repository under any sequence of calls
Spec == Init /\ [][Next]_vars

SlugInit ==
    /\ RepoInit
    /\ ExtIdle
    /\ slugIn \in NamesUpTo(MaxNameLen)
    /\ slugOut = <<>>
    /\ slugAgain = <<>>
    /\ slugPc = "start"

SlugNext == Slugify \/ Reslugify

\* generate_slug on every name up to the bound
SlugSpec == SlugInit /\ [][SlugNext]_vars

(* ------------------------------ list_all ------------------------------- *)

\* limit: int = 100
DefaultLimit == 100

\* the character codes the store orders text by
CharCode(c) ==
    CASE c = " " -> 32 [] c = "'" -> 39 [] c = "-" -> 45 [] c = "1" -> 49
      [] c = "A" -> 65 [] c = "B" -> 66 [] c = "a" -> 97 [] c = "b" -> 98

RECURSIVE TextLeq(_, _)
\* text a sorts before or with text b
TextLeq(a, b) ==
    IF a = <<>> THEN TRUE
    ELSE IF b = <<>> THEN FALSE
    ELSE IF CharCode(Head(a)) < CharCode(Head(b)) THEN TRUE
    ELSE IF CharCode(Head(a)) > CharCode(Head(b)) THEN FALSE
    ELSE TextLeq(Tail(a), Tail(b))

\* ORDER BY {order_by}: row r1 may come before row r2
OrderLeq(r1, r2, order_by) ==
    IF order_by = "id" THEN r1.id <= r2.id ELSE TextLeq(r1.name, r2.name)

\* the comparison "key = %s" of the WHERE clause: never true of NULL
SqlEq(stored, value, key) ==
    IF key = "description"
    THEN value # <<>> /\ stored = value
    ELSE stored = value

\* mutant of Satisfies: the clauses are joined by OR
SatisfiesAny(r, filters) ==
    \/ filters.cols = {}
    \/ \E k \in filters.cols : SqlEq(r[k], filters.vals[k], k)

\* " AND ".join(where_clauses): the row passes every "key = %s"
Satisfies(r, filters) ==
    \A k \in filters.cols : SqlEq(r[k], filters.vals[k], k)

\* the orders in which the store may hand out the rows: rows that compare
\* equal under ORDER BY come in either order
Orderings(rows, order_by) ==
    {q \in [1 .. Cardinality(rows) -> rows] :
        /\ \A i, j \in DOMAIN q : i # j => q[i] # q[j]
        /\ \A i, j \in DOMAIN q : i < j => OrderLeq(q[i], q[j], order_by)}

\* SELECT * FROM t [WHERE ...] ORDER BY order_by LIMIT limit: what fetchall
\* may return
ListAllResults(table, filters, order_by, limit) ==
    {SubSeq(q, 1, IF limit < Len(q) THEN limit ELSE Len(q)) :
        q \in Orderings({r \in table : Satisfies(r, filters)}, order_by)}

\* the filters list_all is called with: none, one column or two; a filter
\* value may be None
ListFilters ==
    {f \in [cols : SUBSET {"is_active", "description"},
            vals : [is_active : BOOLEAN, description : {<<>>, <<"d">>}]] :
        /\ "is_active" \notin f.cols => f.vals.is_active
        /\ "description" \notin f.cols => f.vals.description = <<>>}

\* the columns list_all orders by
OrderBys == {"name", "id"}

\* the limits list_all is called with
ListLimits == {1, 2, DefaultLimit}

\* BaseRepository.list_all
ListAll ==
    \E filters \in ListFilters, order_by \in OrderBys, limit \in ListLimits,
       fault \in Faults :
        /\ listed.kind = "none"
        /\ \E q \in ListAllResults(organizations, filters, order_by, limit) :
              listed' =
                [filters |-> filters, order_by |-> order_by, limit |-> limit,
                 kind |-> IF fault = "none"
                             /\ \A i \in DOMAIN q : Materializes(q[i])
                          THEN "return" ELSE "raise",
                 error |-> IF fault # "none" THEN OperationalError
                           ELSE IF \A i \in DOMAIN q : Materializes(q[i])
                           THEN "" ELSE "ValidationError",
                 rows |-> IF fault = "none"
                             /\ \A i \in DOMAIN q : Materializes(q[i])
                          THEN q ELSE <<>>]
        /\ UNCHANGED listFrame

\* the slug of the row with id i in the tables list_all is run on
ListSlug(i) == [j \in 1 .. i |-> "1"]

\* the tables list_all is run on: up to MaxListRows rows with distinct ids
\* and slugs, active or not, described or not, one name possibly emptied by
\* an earlier update
ListTables ==
    UNION { { {[id |-> i, slug |-> ListSlug(i), name |-> f[i].name,
                type |-> "home", description |-> f[i].description,
                is_active |-> f[i].is_active] : i \in S} :
              f \in [S -> [name : CreateNames \cup {<<>>},
                           description : {<<>>, <<"d">>},
                           is_active : BOOLEAN]] } :
            S \in SUBSET (1 .. MaxListRows) }

ListInit ==
    /\ organizations \in ListTables
    /\ nextId = MaxListRows + 1
    /\ last = Called("none", <<>>, NoData, Return({}, {}, FALSE))
    /\ SlugIdle
    /\ ExtIdle

ListNext == ListAll

\* list_all on every table up to the bound
ListSpec == ListInit /\ [][ListNext]_vars

(* --------------------------- get_connection ---------------------------- *)

\* the operations that run inside "with get_connection() as conn": the
\* repository methods, the commands and get_connection_status
ConnOps == {"repository", "command", "status"}

\* how the body of the with-block may end: it returns, an exception leaves
\* it, or (in a command) typer.Exit leaves it
BodyEnds(op) ==
    IF op = "command" THEN {"return", "raise", "exit"} ELSE {"return", "raise"}

\* mutant of Closes: conn.close() follows the yield without try/finally
ClosesOnReturnOnly(end) == end = "return"

\* try: yield conn / finally: conn.close() -- close runs however the body
\* ended
Closes(end) == TRUE

\* an operation reaches "with get_connection() as conn"
ConnBegin ==
    \E op \in ConnOps :
        /\ connPc = "idle"
        /\ connStarted < MaxConnOps
        /\ connPc' = "connect"
        /\ connOp' = op
        /\ connEnd' = ""
        /\ connStarted' = connStarted + 1
        /\ UNCHANGED <<connOpen, connFrame>>

\* conn = psycopg.connect(...) returns a connection
ConnConnect ==
    /\ connPc = "connect"
    /\ connOpen' = connOpen + 1
    /\ connPc' = "body"
    /\ UNCHANGED <<connOp, connEnd, connStarted, connFrame>>

\* psycopg.connect raises: there is no connection and the with-block is
\* never entered
ConnRefused ==
    /\ connPc = "connect"
    /\ connPc' = "idle"
    /\ connEnd' = "refused"
    /\ UNCHANGED <<connOpen, connOp, connStarted, connFrame>>

\* the body of the with-block runs to its end
ConnBody ==
    \E end \in BodyEnds(connOp) :
        /\ connPc = "body"
        /\ connEnd' = end
        /\ connPc' = "finally"
        /\ UNCHANGED <<connOpen, connOp, connStarted, connFrame>>

\* the generator is resumed or thrown into and the operation ends
ConnExit ==
    /\ connPc = "finally"
    /\ connOpen' = IF Closes(connEnd) THEN connOpen - 1 ELSE connOpen
    /\ connPc' = "idle"
    /\ UNCHANGED <<connOp, connEnd, connStarted, connFrame>>

ConnInit ==
    /\ RepoInit
    /\ SlugIdle
    /\ ExtIdle

ConnNext == ConnBegin \/ ConnConnect \/ ConnRefused \/ ConnBody \/ ConnExit

\* operations opening and closing connections, one after the other
ConnSpec == ConnInit /\ [][ConnNext]_vars

(* ----------------------------- validate_mac ---------------------------- *)

\* "MAC address must be 12 hex characters"
MacHexLen == 12

\* the characters [0-9A-Fa-f] that occur in the values checked
HexDigits == {"0", "9", "a", "f", "A", "F"}

\* the class [0-9A-Fa-f]
IsHexDigit(c) == c \in HexDigits

\* str.upper() on one character
UpperChar(c) == CASE c = "a" -> "A" [] c = "f" -> "F" [] OTHER -> c

\* str.upper()
Upper(s) == [i \in 1 .. Len(s) |-> UpperChar(s[i])]

\* re.sub(r"[^0-9A-Fa-f]", "", v)
StripNonHex(v) == SelectSeq(v, IsHexDigit)

\* mutant of JoinGroups: the groups are joined without .upper()
RECURSIVE JoinGroupsAsGiven(_, _)
JoinGroupsAsGiven(mac, i) ==
    IF i + 2 >= Len(mac)
    THEN SubSeq(mac, i + 1, i + 2)
    ELSE SubSeq(mac, i + 1, i + 2) \o <<":">> \o JoinGroupsAsGiven(mac, i + 2)

\* ":".join(mac[i : i + 2].upper() for i in range(0, 12, 2)), from the
\* group at offset i on
RECURSIVE JoinGroups(_, _)
JoinGroups(mac, i) ==
    IF i + 2 >= Len(mac)
    THEN Upper(SubSeq(mac, i + 1, i + 2))
    ELSE Upper(SubSeq(mac, i + 1, i + 2)) \o <<":">> \o JoinGroups(mac, i + 2)

\* DeviceBase.validate_mac and DeviceUpdate.validate_mac (the same body)
validate_mac(v) ==
    IF v = <<>>
    THEN Accepted(v)
    ELSE LET mac == StripNonHex(v[1])
         IN  IF Len(mac) # MacHexLen
             THEN Rejected
             ELSE Accepted(<<JoinGroups(mac, 0)>>)

\* a spelling of n hex digits, the digits alternating between the two of
\* seed, with sep after every second digit but the last, from digit i on
RECURSIVE MacSpelling(_, _, _, _)
MacSpelling(n, i, seed, sep) ==
    IF i > n THEN <<>>
    ELSE <<seed[2 - (i % 2)]>>
         \o (IF i % 2 = 0 /\ i < n THEN sep ELSE <<>>)
         \o MacSpelling(n, i + 1, seed, sep)

\* the separators of the spellings: none, colon, dash, space
MacSeps == {<<>>, <<":">>, <<"-">>, <<" ">>}

\* the values handed to validate_mac: None, and spellings of up to
\* MaxMacDigits hex digits, bare or behind a character that is no hex digit
MacInputs ==
    {<<>>} \cup
    { <<prefix \o MacSpelling(n, 1, seed, sep)>> :
        n \in 0 .. MaxMacDigits,
        seed \in {"0", "a", "A", "F"} \X {"0", "9", "f", "A"},
        sep \in MacSeps,
        prefix \in {<<>>, <<"g">>} }

\* a payload is constructed with a mac_address
ValidateMac ==
    /\ macPc = "start"
    /\ macOut' = validate_mac(macIn)
    /\ macPc' = "done"
    /\ UNCHANGED <<macIn, macAgain, macFrame>>

\* a payload is constructed with the mac_address an earlier one accepted
RevalidateMac ==
    /\ macPc = "done"
    /\ macOut.ok
    /\ macAgain' = validate_mac(macOut.value)
    /\ macPc' = "again"
    /\ UNCHANGED <<macIn, macOut, macFrame>>

MacInit ==
    /\ RepoInit
    /\ SlugIdle
    /\ ListIdle
    /\ ConnIdle
    /\ DevIdle
    /\ NetIdle
    /\ SiteIdle
    /\ LaterIdle
    /\ macIn \in MacInputs
    /\ macOut = Rejected
    /\ macAgain = Rejected
    /\ macPc = "start"

MacNext == ValidateMac \/ RevalidateMac

\* validate_mac on every value up to the bound
MacSpec == MacInit /\ [][MacNext]_vars

(* ------------------------------- devices ------------------------------- *)

\* DeviceStatus = Literal["online", "offline", "unknown", "maintenance"]
DeviceStatus == {"online", "offline", "unknown", "maintenance"}

\* the slugs the device operations are given
DeviceSlugs == {"d1"}

\* the operational statuses the callers pass: two of DeviceStatus and one
\* that is not
StatusArgs == {"online", "maintenance", "bogus"}

\* a MAC address in canonical form
CanonicalMacArg == MacSpelling(MacHexLen, 1, <<"A", "0">>, <<":">>)

\* the same digits in lower case with dashes
DashedMacArg == MacSpelling(MacHexLen, 1, <<"a", "0">>, <<"-">>)

\* a text with too few hex digits
ShortMacArg == MacSpelling(2, 1, <<"a", "0">>, <<>>)

\* the MAC addresses the callers pass; <<>> is None (the option not given)
DevMacArgs == {<<>>, <<CanonicalMacArg>>, <<DashedMacArg>>, <<ShortMacArg>>}

\* the free texts the callers pass for a location, a reason or a reference
TextArgs == {<<>>, <<"t">>}

\* the rows of the devices table with the given slug
DevicesWithSlug(table, slug) == {d \in table : d.slug = slug}

\* the row INSERT INTO devices makes of the columns it is given: a column
\* the statement does not name takes its default
NewDevice(slug, status, mac) ==
    [slug |-> slug,
     status |-> IF status = <<>> THEN "unknown" ELSE status[1],
     usage_status |-> "active",
     mac_address |-> mac,
     storage_location |-> <<>>,
     failure_date |-> <<>>,
     failure_reason |-> <<>>,
     rma_reference |-> <<>>]

\* Device(**row): the validators of DeviceBase on a stored row
DeviceLoads(d) ==
    /\ d.status \in DeviceStatus
    /\ validate_mac(d.mac_address).ok

\* the row after SET k = v for every column k of the SET clause set
SetDeviceColumns(d, set) ==
    [k \in DOMAIN d |-> IF k \in DOMAIN set THEN set[k] ELSE d[k]]

\* the table after UPDATE devices SET ... WHERE slug = %s
UpdateDevices(table, slug, set) ==
    {IF d.slug = slug THEN SetDeviceColumns(d, set) ELSE d : d \in table}

\* device create: the slug is derived, the site looked up, then the INSERT
\* with the options as given; status is not among its columns
DevCmdCreate ==
    \E slug \in DeviceSlugs, mac \in DevMacArgs, siteFound \in BOOLEAN :
        /\ IF ~siteFound
           THEN /\ devLast' = Ended("cmd_create", "exit", "")
                /\ UNCHANGED devices
           ELSE IF DevicesWithSlug(devices, slug) # {}
           THEN /\ devLast' = Ended("cmd_create", "exit", "UniqueViolation")
                /\ UNCHANGED devices
           ELSE /\ devLast' = Ended("cmd_create", "return", "")
                /\ devices' = devices \cup {NewDevice(slug, <<>>, mac)}
        /\ UNCHANGED devFrame

\* updates["status"] = status; updates["mac_address"] = mac if mac else None
CmdUpdates(status, mac) ==
    [cols |-> (IF status # <<>> THEN {"status"} ELSE {})
              \cup (IF mac # <<>> THEN {"mac_address"} ELSE {}),
     status |-> status,
     mac_address |-> IF mac # <<>> /\ mac[1] = <<>> THEN <<>> ELSE mac]

\* the SET clause made of the keys of updates
SetClauseOf(u) == [k \in u.cols |-> IF k = "status" THEN u[k][1] ELSE u[k]]

\* device update: the options given are written as they are
DevCmdUpdate ==
    \E slug \in DeviceSlugs, status \in {<<>>} \cup {<<x>> : x \in StatusArgs},
       mac \in DevMacArgs \cup {<< <<>> >>} :
        LET u == CmdUpdates(status, mac)
        IN  /\ IF u.cols = {} \/ DevicesWithSlug(devices, slug) = {}
               THEN /\ devLast' = Ended("cmd_update", "exit", "")
                    /\ UNCHANGED devices
               ELSE /\ devLast' = Ended("cmd_update", "return", "")
                    /\ devices' =
                         UpdateDevices(devices, slug, SetClauseOf(u))
            /\ UNCHANGED devFrame

\* device delete
DevCmdDelete ==
    \E slug \in DeviceSlugs, confirm \in BOOLEAN :
        /\ IF ~confirm
           THEN /\ devLast' = Ended("cmd_delete", "abort", "")
                /\ UNCHANGED devices
           ELSE IF DevicesWithSlug(devices, slug) = {}
           THEN /\ devLast' = Ended("cmd_delete", "exit", "")
                /\ UNCHANGED devices
           ELSE /\ devLast' = Ended("cmd_delete", "return", "")
                /\ devices' = devices \ DevicesWithSlug(devices, slug)
        /\ UNCHANGED devFrame

\* a usage status command: look the device up, exit if there is none,
\* otherwise UPDATE with the command's SET clause and commit
Lifecycle(op, slug, set) ==
    /\ IF DevicesWithSlug(devices, slug) = {}
       THEN /\ devLast' = Ended(op, "exit", "")
            /\ UNCHANGED devices
       ELSE /\ devLast' = Ended(op, "return", "")
            /\ devices' = UpdateDevices(devices, slug, set)
    /\ UNCHANGED devFrame

\* device store
DevCmdStore ==
    \E slug \in DeviceSlugs, location \in TextArgs :
        Lifecycle("store", slug,
                  [usage_status |-> "stored", storage_location |-> location,
                   status |-> "offline"])

\* device activate
DevCmdActivate ==
    \E slug \in DeviceSlugs :
        Lifecycle("activate", slug,
                  [usage_status |-> "active", storage_location |-> <<>>,
                   failure_date |-> <<>>, failure_reason |-> <<>>,
                   rma_reference |-> <<>>])

\* device fail
DevCmdFail ==
    \E slug \in DeviceSlugs, reason \in TextArgs, rma \in TextArgs :
        Lifecycle("fail", slug,
                  [usage_status |-> "failed", status |-> "offline",
                   failure_date |-> <<"today">>, failure_reason |-> reason,
                   rma_reference |-> rma])

\* device retire
DevCmdRetire ==
    \E slug \in DeviceSlugs, confirm \in BOOLEAN :
        IF ~confirm
        THEN /\ devLast' = Ended("retire", "abort", "")
             /\ UNCHANGED <<devices, devFrame>>
        ELSE Lifecycle("retire", slug,
                       [usage_status |-> "retired",
                        status |-> "decommissioned"])

\* device pending
DevCmdPending ==
    \E slug \in DeviceSlugs :
        Lifecycle("pending", slug,
                  [usage_status |-> "pending", status |-> "unknown"])

\* DeviceCreate(...) / DeviceUpdate(...): the status is one of DeviceStatus
\* (or not given) and validate_mac accepts the mac_address
DevicePayloadValid(status, mac) ==
    /\ status # <<>> => status[1] \in DeviceStatus
    /\ validate_mac(mac).ok

\* DeviceRepository.create with a DeviceCreate payload
DevRepoCreate ==
    \E slug \in DeviceSlugs, status \in {<<>>} \cup {<<x>> : x \in StatusArgs},
       mac \in DevMacArgs :
        /\ IF ~DevicePayloadValid(status, mac)
           THEN /\ devLast' = Ended("create", "raise", "ValidationError")
                /\ UNCHANGED devices
           ELSE IF DevicesWithSlug(devices, slug) # {}
           THEN /\ devLast' = Ended("create", "raise", "UniqueViolation")
                /\ UNCHANGED devices
           ELSE /\ devLast' = Ended("create", "return", "")
                /\ devices' = devices \cup
                      {NewDevice(slug, status, validate_mac(mac).value)}
        /\ UNCHANGED devFrame

\* DeviceRepository.get_by_slug
DevGetBySlug ==
    \E slug \in DeviceSlugs :
        /\ devLast' =
             IF \A d \in DevicesWithSlug(devices, slug) : DeviceLoads(d)
             THEN Ended("get_by_slug", "return", "")
             ELSE Ended("get_by_slug", "raise", "ValidationError")
        /\ UNCHANGED <<devices, devFrame>>

\* DeviceRepository.update with a DeviceUpdate payload: the attributes that
\* are not None are written, the commit precedes Device(**row)
DevRepoUpdate ==
    \E slug \in DeviceSlugs, status \in {<<>>} \cup {<<x>> : x \in StatusArgs},
       mac \in DevMacArgs :
        LET u == [cols |-> (IF status # <<>> THEN {"status"} ELSE {})
                           \cup (IF mac # <<>> THEN {"mac_address"} ELSE {}),
                  status |-> status,
                  mac_address |-> validate_mac(mac).value]
            after == UpdateDevices(devices, slug, SetClauseOf(u))
        IN  /\ IF ~DevicePayloadValid(status, mac)
               THEN /\ devLast' = Ended("update", "raise", "ValidationError")
                    /\ UNCHANGED devices
               ELSE /\ devices' = IF u.cols = {} THEN devices ELSE after
                    /\ devLast' =
                         IF \A d \in DevicesWithSlug(after, slug) :
                               DeviceLoads(d)
                         THEN Ended("update", "return", "")
                         ELSE Ended("update", "raise", "ValidationError")
            /\ UNCHANGED devFrame

DevInit ==
    /\ RepoInit
    /\ SlugIdle
    /\ ExtIdle

DevNext ==
    \/ DevCmdCreate \/ DevCmdUpdate \/ DevCmdDelete
    \/ DevCmdStore \/ DevCmdActivate \/ DevCmdFail \/ DevCmdRetire
    \/ DevCmdPending
    \/ DevRepoCreate \/ DevRepoUpdate \/ DevGetBySlug

\* the devices table under any sequence of device commands and repository
\* calls
DevSpec == DevInit /\ [][DevNext]_vars

(* ------------------------------ networks ------------------------------- *)

\* vlan_id: Optional[int] = Field(None, ge=1, ...)
VlanMin == 1

\* vlan_id: Optional[int] = Field(None, ..., le=4094)
VlanMax == 4094

\* NetworkType
NetworkType ==
    {"ethernet", "wifi", "zwave", "zigbee", "bluetooth", "thread", "matter",
     "other"}

\* the slugs the network operations are given
NetworkSlugs == {"n1", "n2"}

\* the network types the callers pass: one of NetworkType and one that is
\* not
NetTypeArgs == {"ethernet", "bogus"}

\* the VLAN ids the callers pass: None, the two ends of the range and their
\* outer neighbours
VlanArgs ==
    {<<>>} \cup {<<v>> : v \in {VlanMin - 1, VlanMin, VlanMax, VlanMax + 1}}

\* mutant of ValidVlan: the bounds are exclusive (gt / lt)
ValidVlanExclusive(v) == v = <<>> \/ (v[1] > VlanMin /\ v[1] < VlanMax)

\* Field(None, ge=1, le=4094) on an Optional[int]
ValidVlan(v) == v = <<>> \/ (v[1] >= VlanMin /\ v[1] <= VlanMax)

\* NetworkCreate(...) / Network(**row): network_type is of NetworkType and
\* vlan_id passes its Field
NetworkValid(type, vlan) == type \in NetworkType /\ ValidVlan(vlan)

\* the rows of the networks table with the given slug
NetworksWithSlug(table, slug) == {n \in table : n.slug = slug}

\* NetworkRepository.create with a NetworkCreate payload
NetRepoCreate ==
    \E slug \in NetworkSlugs, type \in NetTypeArgs, vlan \in VlanArgs :
        /\ IF ~NetworkValid(type, vlan)
           THEN /\ netLast' = NetEnded("create", <<type>>, vlan, FALSE, FALSE,
                                       "raise", "ValidationError")
                /\ UNCHANGED networks
           ELSE IF NetworksWithSlug(networks, slug) # {}
           THEN /\ netLast' = NetEnded("create", <<type>>, vlan, TRUE, TRUE,
                                       "raise", "UniqueViolation")
                /\ UNCHANGED networks
           ELSE /\ netLast' = NetEnded("create", <<type>>, vlan, TRUE, TRUE,
                                       "return", "")
                /\ networks' = networks \cup
                      {[slug |-> slug, network_type |-> type,
                        vlan_id |-> vlan]}
        /\ UNCHANGED netFrame

\* NetworkRepository.update with a NetworkUpdate payload: vlan_id is a plain
\* Optional[int]; a vlan_id that is not None is written, the commit precedes
\* Network(**row); without fields the row is looked up instead
NetRepoUpdate ==
    \E slug \in NetworkSlugs, vlan \in VlanArgs :
        LET after == {IF n.slug = slug /\ vlan # <<>>
                      THEN [n EXCEPT !.vlan_id = vlan] ELSE n : n \in networks}
        IN  /\ networks' = after
            /\ netLast' =
                 IF \A n \in NetworksWithSlug(after, slug) :
                       NetworkValid(n.network_type, n.vlan_id)
                 THEN NetEnded("update", <<>>, vlan, TRUE, TRUE, "return", "")
                 ELSE NetEnded("update", <<>>, vlan, TRUE, TRUE, "raise",
                               "ValidationError")
            /\ UNCHANGED netFrame

\* network create: the site is looked up, then the INSERT with the options
\* as given
NetCmdCreate ==
    \E slug \in NetworkSlugs, type \in NetTypeArgs, vlan \in VlanArgs,
       siteFound \in BOOLEAN :
        /\ IF ~siteFound
           THEN /\ netLast' = NetEnded("cmd_create", <<type>>, vlan, FALSE,
                                       TRUE, "exit", "")
                /\ UNCHANGED networks
           ELSE IF NetworksWithSlug(networks, slug) # {}
           THEN /\ netLast' = NetEnded("cmd_create", <<type>>, vlan, FALSE,
                                       TRUE, "exit", "UniqueViolation")
                /\ UNCHANGED networks
           ELSE /\ netLast' = NetEnded("cmd_create", <<type>>, vlan, FALSE,
                                       TRUE, "return", "")
                /\ networks' = networks \cup
                      {[slug |-> slug, network_type |-> type,
                        vlan_id |-> vlan]}
        /\ UNCHANGED netFrame

\* network delete
NetCmdDelete ==
    \E slug \in NetworkSlugs, confirm \in BOOLEAN :
        /\ IF ~confirm
           THEN /\ netLast' = NetEnded("cmd_delete", <<>>, <<>>, FALSE, FALSE,
                                       "abort", "")
                /\ UNCHANGED networks
           ELSE IF NetworksWithSlug(networks, slug) = {}
           THEN /\ netLast' = NetEnded("cmd_delete", <<>>, <<>>, FALSE, TRUE,
                                       "exit", "")
                /\ UNCHANGED networks
           ELSE /\ netLast' = NetEnded("cmd_delete", <<>>, <<>>, FALSE, TRUE,
                                       "return", "")
                /\ networks' = networks \ NetworksWithSlug(networks, slug)
        /\ UNCHANGED netFrame

NetInit ==
    /\ RepoInit
    /\ SlugIdle
    /\ ExtIdle

NetNext == NetRepoCreate \/ NetRepoUpdate \/ NetCmdCreate \/ NetCmdDelete

\* the networks table under any sequence of network commands and repository
\* calls
NetSpec == NetInit /\ [][NetNext]_vars

(* -------------------------------- sites -------------------------------- *)

\* SiteType
SiteType == {"residence", "office", "datacenter", "warehouse", "other"}

\* the slugs the site operations are given
SiteSlugs == {"s1", "s2"}

\* the site types the callers pass: None (not given), two of SiteType and
\* one that is not
SiteTypeArgs == {<<>>, <<"office">>, <<"warehouse">>, <<"castle">>}

\* SiteCreate(...) / Site(**row): site_type: Optional[SiteType]
SiteCreateValid(type) == type = <<>> \/ type[1] \in SiteType

\* SiteUpdate(...): site_type: Optional[str], any text is accepted
SiteUpdateValid(type) == TRUE

\* the rows of the sites table with the given slug
SitesWithSlug(table, slug) == {x \in table : x.slug = slug}

\* SiteRepository.create with a SiteCreate payload; a site_type not given
\* is the model's default "residence"
SiteRepoCreate ==
    \E slug \in SiteSlugs, type \in SiteTypeArgs :
        /\ IF ~SiteCreateValid(type)
           THEN /\ siteLast' = SiteEnded("create", type, FALSE, FALSE, "raise",
                                         "ValidationError")
                /\ UNCHANGED sites
           ELSE IF SitesWithSlug(sites, slug) # {}
           THEN /\ siteLast' = SiteEnded("create", type, TRUE, TRUE, "raise",
                                         "UniqueViolation")
                /\ UNCHANGED sites
           ELSE /\ siteLast' = SiteEnded("create", type, TRUE, TRUE, "return",
                                         "")
                /\ sites' = sites \cup
                      {[slug |-> slug,
                        site_type |-> IF type = <<>> THEN <<"residence">>
                                      ELSE type]}
        /\ UNCHANGED siteFrame

\* SiteRepository.update with a SiteUpdate payload: a site_type that is not
\* None is written, the commit precedes Site(**row); without fields the row
\* is looked up instead
SiteRepoUpdate ==
    \E slug \in SiteSlugs, type \in SiteTypeArgs :
        LET after == {IF x.slug = slug /\ type # <<>>
                      THEN [x EXCEPT !.site_type = type] ELSE x : x \in sites}
        IN  /\ IF ~SiteUpdateValid(type)
               THEN /\ siteLast' = SiteEnded("update", type, FALSE, FALSE,
                                             "raise", "ValidationError")
                    /\ UNCHANGED sites
               ELSE /\ sites' = after
                    /\ siteLast' =
                         IF \A x \in SitesWithSlug(after, slug) :
                               SiteCreateValid(x.site_type)
                         THEN SiteEnded("update", type, TRUE, TRUE, "return",
                                        "")
                         ELSE SiteEnded("update", type, TRUE, TRUE, "raise",
                                        "ValidationError")
            /\ UNCHANGED siteFrame

\* SiteRepository.get_by_slug
SiteGetBySlug ==
    \E slug \in SiteSlugs :
        /\ siteLast' =
             IF \A x \in SitesWithSlug(sites, slug) :
                   SiteCreateValid(x.site_type)
             THEN SiteEnded("get_by_slug", <<>>, FALSE, TRUE, "return", "")
             ELSE SiteEnded("get_by_slug", <<>>, FALSE, TRUE, "raise",
                            "ValidationError")
        /\ UNCHANGED <<sites, siteFrame>>

\* SiteRepository.delete
SiteRepoDelete ==
    \E slug \in SiteSlugs :
        /\ siteLast' = SiteEnded("delete", <<>>, FALSE, TRUE, "return", "")
        /\ sites' = sites \ SitesWithSlug(sites, slug)
        /\ UNCHANGED siteFrame

SiteInit ==
    /\ RepoInit
    /\ SlugIdle
    /\ ExtIdle

SiteNext ==
    SiteRepoCreate \/ SiteRepoUpdate \/ SiteGetBySlug \/ SiteRepoDelete

\* the sites table under any sequence of SiteRepository calls
SiteSpec == SiteInit /\ [][SiteNext]_vars

(* --------------------------- device payloads --------------------------- *)

\* the fields DeviceCreate declares (DeviceBase and its own)
DeviceCreateFields ==
    {"name", "device_type", "status", "manufacturer", "model",
     "serial_number", "firmware_version", "hostname", "mac_address",
     "ip_address", "is_active", "site_id", "zone_id", "network_id",
     "category_id"}

\* the fields DeviceUpdate declares
DeviceUpdateFields ==
    {"name", "status", "zone_id", "manufacturer", "model", "serial_number",
     "firmware_version", "mac_address", "ip_address"}

\* the fields of a device payload model
DeviceFields(model) ==
    IF model = "DeviceCreate" THEN DeviceCreateFields ELSE DeviceUpdateFields

\* the usage statuses the callers pass as a keyword argument
UsageArgs ==
    {<<>>, <<"active">>, <<"stored">>, <<"retired">>, <<"invalid_usage">>}

\* the device payload models
DeviceModels == {"DeviceCreate", "DeviceUpdate"}

\* pydantic BaseModel.__init__ on a device payload model: every declared
\* field is validated, a keyword argument that names no declared field is
\* ignored (the models set no "extra" configuration), and the payload has
\* the declared fields as its attributes
BuildDevicePayload(model, status, usage, mac) ==
    IF DevicePayloadValid(status, mac)
    THEN Built(model, status, usage, mac, TRUE, DeviceFields(model),
               IF "usage_status" \in DeviceFields(model)
               THEN (IF usage = <<>> THEN <<"active">> ELSE usage)
               ELSE <<>>)
    ELSE Built(model, status, usage, mac, FALSE, {}, <<>>)

\* DeviceCreate(...) or DeviceUpdate(...)
ConstructDevicePayload ==
    \E model \in DeviceModels, usage \in UsageArgs, mac \in DevMacArgs,
       status \in {<<>>, <<"online">>, <<"bogus">>} :
        /\ built' = BuildDevicePayload(model, status, usage, mac)
        /\ UNCHANGED payFrame

PayInit ==
    /\ RepoInit
    /\ SlugIdle
    /\ ExtIdle

PayNext == ConstructDevicePayload

\* device payloads constructed from any keyword arguments
PaySpec == PayInit /\ [][PayNext]_vars

(* --------------------------- create commands --------------------------- *)

\* the slugs of organizations the commands name
OrgSlugs == {"o1", "o2"}

\* the slugs of sites the commands name
FamSiteSlugs == {"s1", "s2"}

\* the tables whose create command names a site as the parent
SiteChildren == {"zone", "device", "network"}

\* the rows of one table
FamTable(kind) == {x \in famRows : x.kind = kind}

\* mutant of ParentFound: the lookup result is not tested
ParentAssumed(kind, parent) == TRUE

\* cur.fetchone() after SELECT id FROM organizations / sites WHERE slug = %s
\* is a row
ParentFound(kind, parent) ==
    IF kind = "site"
    THEN parent \in famOrgs
    ELSE \E s \in FamTable("site") : s.slug = parent

\* org create: the INSERT, committed, or rolled back with exit code 1 when
\* the store refuses it (the slug is taken)
FamOrgCreate ==
    \E slug \in OrgSlugs :
        /\ IF slug \in famOrgs
           THEN /\ famLast' = FamEnded("org", "", "exit", 1)
                /\ UNCHANGED famOrgs
           ELSE /\ famLast' = FamEnded("org", "", "return", 0)
                /\ famOrgs' = famOrgs \cup {slug}
        /\ UNCHANGED <<famRows, famFrame>>

\* a create command of a table below another: look the parent up by slug,
\* exit with code 1 if there is none, otherwise INSERT with the parent's id
\* and commit, or roll back and exit with code 1 when the store refuses
FamCreate(kind, slug, parent) ==
    /\ IF ~ParentFound(kind, parent)
       THEN /\ famLast' = FamEnded(kind, parent, "exit", 1)
            /\ UNCHANGED famRows
       ELSE IF \E x \in FamTable(kind) : x.slug = slug
       THEN /\ famLast' = FamEnded(kind, parent, "exit", 1)
            /\ UNCHANGED famRows
       ELSE /\ famLast' = FamEnded(kind, parent, "return", 0)
            /\ famRows' = famRows \cup
                  {[kind |-> kind, slug |-> slug, parent |-> parent]}
    /\ UNCHANGED <<famOrgs, famFrame>>

\* site create
FamSiteCreate ==
    \E slug \in FamSiteSlugs, org \in OrgSlugs : FamCreate("site", slug, org)

\* zone create
FamZoneCreate ==
    \E site \in FamSiteSlugs : FamCreate("zone", "z1", site)

\* device create
FamDeviceCreate ==
    \E site \in FamSiteSlugs : FamCreate("device", "d1", site)

\* network create
FamNetworkCreate ==
    \E site \in FamSiteSlugs : FamCreate("network", "n1", site)

FamInit ==
    /\ RepoInit
    /\ SlugIdle
    /\ ExtIdle

FamNext ==
    \/ FamOrgCreate \/ FamSiteCreate \/ FamZoneCreate \/ FamDeviceCreate
    \/ FamNetworkCreate

\* the tables under any sequence of create commands
FamSpec == FamInit /\ [][FamNext]_vars

(* ------------------------ entity-specific queries ---------------------- *)

\* the zones table the devices refer to
JoinZones == {[id |-> 1, name |-> "Attic"]}

\* the device_categories table the devices refer to
JoinCategories == {[id |-> 1, name |-> "Sensor"]}

\* the ids of the organizations looked up; the last has no row
JoinOrgIds == {1, 2, 3}

\* mutant of LeftJoin: an inner JOIN, a row without a match is dropped
InnerJoin(matches) == {<<x>> : x \in matches}

\* LEFT JOIN: the row is paired with every match, or with NULLs when there
\* is none
LeftJoin(matches) == IF matches = {} THEN {<<>>} ELSE {<<x>> : x \in matches}

\* the rows of a table a reference points to: none for NULL
Referred(table, ref) == {x \in table : ref # <<>> /\ x.id = ref[1]}

\* the name column of a LEFT JOINed row: NULL when the row is the NULL one
NameOf(j) == IF j = <<>> THEN <<>> ELSE <<j[1].name>>

\* DeviceRepository.get_with_details: the device rows with that key, each
\* with the names of its zone and category
GetWithDetails(db, key) ==
    {[id |-> d.id, zone_name |-> NameOf(z), category_name |-> NameOf(c)] :
        <<d, z, c>> \in
          {t \in db.devices \X (LeftJoin(JoinZones) \cup {<<>>})
                            \X (LeftJoin(JoinCategories) \cup {<<>>}) :
              /\ t[1].id = key
              /\ t[2] \in LeftJoin(Referred(JoinZones, t[1].zone_id))
              /\ t[3] \in LeftJoin(Referred(JoinCategories,
                                             t[1].category_id))}}

\* the joined rows count_by_group groups: the active devices, each with its
\* group column (the name of its zone or of its category)
GroupedRows(db, group_by) ==
    {[id |-> t[1].id, value |-> NameOf(t[2])] :
        t \in {u \in db.devices \X (LeftJoin(JoinZones)
                                     \cup LeftJoin(JoinCategories)
                                     \cup {<<>>}) :
                 /\ u[1].is_active
                 /\ u[2] \in LeftJoin(
                       IF group_by = "zone"
                       THEN Referred(JoinZones, u[1].zone_id)
                       ELSE Referred(JoinCategories, u[1].category_id))}}

\* COALESCE(column, 'Unassigned')
Coalesce(value) == IF value = <<>> THEN "Unassigned" ELSE value[1]

\* DeviceRepository.count_by_group: one row per value of the group column
CountByGroup(db, group_by) ==
    LET rows == GroupedRows(db, group_by)
    IN  {[group_name |-> Coalesce(v),
          count |-> Cardinality({x \in rows : x.value = v})] :
            v \in {x.value : x \in rows}}

\* OrganizationRepository.get_with_site_count: COUNT(s.id) over the
\* organization LEFT JOINed with its sites counts the rows that have a site
GetWithSiteCount(db, key) ==
    IF key \in {1, 2}
    THEN {[id |-> key,
           site_count |->
             Cardinality({j \in LeftJoin({s \in db.sites :
                                             s.organization_id = key}) :
                             j # <<>>})]}
    ELSE {}

\* the tables the queries are run on: up to MaxJoinDevices devices, each
\* with or without a zone and a category, active or not, and up to two
\* sites, each of organization 1 or 2
JoinDbs ==
    [devices : UNION { { {[id |-> i, zone_id |-> f[i].zone_id,
                           category_id |-> f[i].category_id,
                           is_active |-> f[i].is_active] : i \in S} :
                          f \in [S -> [zone_id : {<<>>, <<1>>},
                                       category_id : {<<>>, <<1>>},
                                       is_active : BOOLEAN]] } :
                       S \in SUBSET (1 .. MaxJoinDevices) },
     sites : UNION { { {[id |-> i, organization_id |-> g[i]] : i \in T} :
                        g \in [T -> {1, 2}] } :
                     T \in SUBSET {1, 2} }]

\* get_with_details(slug)
QueryDetails ==
    \E key \in 1 .. MaxJoinDevices :
        /\ joinOut.query = "none"
        /\ joinOut' = Fetched("details", key, GetWithDetails(joinDb, key))
        /\ UNCHANGED <<joinDb, joinFrame>>

\* count_by_group(group_by)
QueryCountByGroup ==
    \E group_by \in {"zone", "category"} :
        /\ joinOut.query = "none"
        /\ joinOut' = Fetched(group_by, 0, CountByGroup(joinDb, group_by))
        /\ UNCHANGED <<joinDb, joinFrame>>

\* get_with_site_count(slug)
QuerySiteCount ==
    \E key \in JoinOrgIds :
        /\ joinOut.query = "none"
        /\ joinOut' = Fetched("site_count", key,
                              GetWithSiteCount(joinDb, key))
        /\ UNCHANGED <<joinDb, joinFrame>>

JoinInit ==
    /\ RepoInit
    /\ SlugIdle
    /\ ListIdle /\ ConnIdle /\ MacIdle /\ DevIdle /\ NetIdle /\ SiteIdle
    /\ PayIdle /\ FamIdle /\ RaceIdle /\ MigIdle /\ ZdevIdle
    /\ joinDb \in JoinDbs
    /\ joinOut = Fetched("none", 0, {})

JoinNext == QueryDetails \/ QueryCountByGroup \/ QuerySiteCount

\* the read queries on every database up to the bound
JoinSpec == JoinInit /\ [][JoinNext]_vars

(* ------------------- device commands of two processes ------------------ *)

\* the commands that look the device up and then update it
LookupThenUpdate ==
    {"update", "store", "activate", "fail", "retire", "pending"}

\* the SET clause of the UPDATE each of these commands executes; update is
\* run with --status online, store with --location, fail with --reason
RaceSetClause(cmd) ==
    CASE cmd.op = "update" -> [status |-> "online"]
      [] cmd.op = "store" ->
           [usage_status |-> "stored", storage_location |-> cmd.text,
            status |-> "offline"]
      [] cmd.op = "activate" ->
           [usage_status |-> "active", storage_location |-> <<>>,
            failure_date |-> <<>>, failure_reason |-> <<>>,
            rma_reference |-> <<>>]
      [] cmd.op = "fail" ->
           [usage_status |-> "failed", status |-> "offline",
            failure_date |-> <<"today">>, failure_reason |-> cmd.text,
            rma_reference |-> <<>>]
      [] cmd.op = "retire" ->
           [usage_status |-> "retired", status |-> "decommissioned"]
      [] OTHER -> [usage_status |-> "pending", status |-> "unknown"]

\* the first statement of the command: SELECT the device by slug; without
\* a row the command prints "not found" and exits with code 1
RaceLookup ==
    \E op \in LookupThenUpdate, text \in TextArgs, slug \in DeviceSlugs :
        /\ racePc = "idle"
        /\ raceRuns < MaxRaceCmds
        /\ raceRuns' = raceRuns + 1
        /\ raceCmd' = RaceCmd(op, text)
        /\ IF DevicesWithSlug(raceRows, slug) = {}
           THEN /\ raceLast' = RaceEnded(op, "exit", "not_found", 0)
                /\ racePc' = "idle"
           ELSE /\ raceLast' = RaceEnded(op, "lookup", "none", 0)
                /\ racePc' = "selected"
        /\ UNCHANGED <<raceRows, raceFrame>>

\* the rest of the command: UPDATE ... WHERE slug = %s RETURNING slug,
\* commit, and the success message
RaceUpdate ==
    \E slug \in DeviceSlugs :
        /\ racePc = "selected"
        /\ raceRows' = UpdateDevices(raceRows, slug, RaceSetClause(raceCmd))
        /\ raceLast' = RaceEnded(raceCmd.op, "return", "ok",
                                 Cardinality(DevicesWithSlug(raceRows, slug)))
        /\ racePc' = "idle"
        /\ UNCHANGED <<raceCmd, raceRuns, raceFrame>>

\* device delete --yes of the other process, committed at once
RaceOtherDelete ==
    \E slug \in DeviceSlugs :
        /\ DevicesWithSlug(raceRows, slug) # {}
        /\ raceRows' = raceRows \ DevicesWithSlug(raceRows, slug)
        /\ UNCHANGED <<racePc, raceCmd, raceLast, raceRuns, raceFrame>>

RaceInit ==
    /\ RepoInit
    /\ SlugIdle
    /\ ListIdle /\ ConnIdle /\ MacIdle /\ DevIdle /\ NetIdle /\ SiteIdle
    /\ PayIdle /\ FamIdle /\ JoinIdle /\ MigIdle /\ ZdevIdle
    /\ raceRows \in {{NewDevice(slug, <<>>, <<>>) : slug \in S} :
                        S \in SUBSET DeviceSlugs}
    /\ racePc = "idle"
    /\ raceCmd = RaceCmd("none", <<>>)
    /\ raceLast = RaceEnded("none", "return", "none", 0)
    /\ raceRuns = 0

RaceNext == RaceLookup \/ RaceUpdate \/ RaceOtherDelete

\* the device commands of one process interleaved with the deletes of
\* another
RaceSpec == RaceInit /\ [][RaceNext]_vars

(* ------------------------------ db migrate ----------------------------- *)

\* the elements of a sequence
Range(s) == {s[i] : i \in DOMAIN s}

\* mutant of Sorted: the files in the order glob yields them
AsGlobbed(s) == s

RECURSIVE Sorted(_)
\* sorted(...): the file names in ascending order
Sorted(s) ==
    IF s = <<>>
    THEN <<>>
    ELSE LET least == CHOOSE x \in Range(s) : \A y \in Range(s) : x <= y
         IN  <<least>> \o Sorted(SelectSeq(s, LAMBDA y : y # least))

\* the listings glob can yield: the files of a directory in any order
Globbed ==
    {s \in UNION {[1 .. n -> 1 .. MaxMigrations] : n \in 0 .. MaxMigrations} :
        \A i, j \in DOMAIN s : i # j => s[i] # s[j]}

\* db migrate up to the connection: a missing migrations directory exits
\* with code 1, no file or --dry-run returns, otherwise the connection is
\* opened
MigrateStart ==
    \E exists \in BOOLEAN, dry_run \in BOOLEAN :
        /\ migPc = "start"
        /\ IF ~exists
           THEN /\ migPc' = "done"
                /\ migEnd' = MigEnded(dry_run, <<1>>)
                /\ UNCHANGED <<migTodo, migConn>>
           ELSE IF migFiles = <<>> \/ dry_run
           THEN /\ migPc' = "done"
                /\ migEnd' = MigEnded(dry_run, <<0>>)
                /\ UNCHANGED <<migTodo, migConn>>
           ELSE /\ migPc' = "loop"
                /\ migTodo' = Sorted(migFiles)
                /\ migConn' = TRUE
                /\ migEnd' = MigEnded(dry_run, <<>>)
        /\ UNCHANGED <<migFiles, migFails, migDone, migPending, migRun,
                       migFrame>>

\* cur.execute(sql) of the next file; when it raises: rollback and exit
\* with code 1
MigrateExecute ==
    /\ migPc = "loop"
    /\ migTodo # <<>>
    /\ migRun' = Append(migRun, Head(migTodo))
    /\ IF Head(migTodo) \in migFails
       THEN /\ migPending' = <<>>
            /\ migPc' = "done"
            /\ migEnd' = MigEnded(migEnd.dry_run, <<1>>)
       ELSE /\ migPending' = <<Head(migTodo)>>
            /\ migPc' = "commit"
            /\ UNCHANGED migEnd
    /\ UNCHANGED <<migFiles, migFails, migTodo, migDone, migConn, migFrame>>

\* conn.commit() after the file
MigrateCommit ==
    /\ migPc = "commit"
    /\ migDone' = migDone \o migPending
    /\ migPending' = <<>>
    /\ migTodo' = Tail(migTodo)
    /\ migPc' = "loop"
    /\ UNCHANGED <<migFiles, migFails, migRun, migConn, migEnd, migFrame>>

\* the end of the loop: the success message
MigrateFinish ==
    /\ migPc = "loop"
    /\ migTodo = <<>>
    /\ migPc' = "done"
    /\ migEnd' = MigEnded(migEnd.dry_run, <<0>>)
    /\ UNCHANGED <<migFiles, migFails, migTodo, migDone, migPending, migRun,
                   migConn, migFrame>>

MigInit ==
    /\ RepoInit
    /\ SlugIdle
    /\ ListIdle /\ ConnIdle /\ MacIdle /\ DevIdle /\ NetIdle /\ SiteIdle
    /\ PayIdle /\ FamIdle /\ JoinIdle /\ RaceIdle /\ ZdevIdle
    /\ migFiles \in Globbed
    /\ migFails \in SUBSET Range(migFiles)
    /\ migPc = "start"
    /\ migTodo = <<>>
    /\ migDone = <<>>
    /\ migPending = <<>>
    /\ migRun = <<>>
    /\ migConn = FALSE
    /\ migEnd = MigEnded(FALSE, <<>>)

MigNext == MigrateStart \/ MigrateExecute \/ MigrateCommit \/ MigrateFinish

\* db migrate on every migrations directory up to the bound
MigSpec == MigInit /\ [][MigNext]_vars

(* ------------------------- devices and their zones --------------------- *)

\* the sites the devices are created in; both are stored
ZoneSiteSlugs == {"s1", "s2"}

\* the zones that can be stored: the slug "z1" is used in both sites
ZoneRows ==
    {[id |-> 1, slug |-> "z1", site_id |-> "s1"],
     [id |-> 2, slug |-> "z1", site_id |-> "s2"],
     [id |-> 3, slug |-> "z2", site_id |-> "s2"]}

\* the zone slugs the callers pass
ZoneSlugArgs == {"z1", "z2"}

\* the device slugs the callers pass
ZoneDeviceSlugs == {"d1", "d2"}

\* mutant of ZoneLookup: the zone is looked up by slug alone
ZoneLookupAnySite(table, slug, site_id) ==
    LET found == {z \in table : z.slug = slug}
    IN  IF found = {} THEN <<>> ELSE <<(CHOOSE z \in found : TRUE).id>>

\* SELECT id FROM zones WHERE slug = %s AND site_id = %s; fetchone()
ZoneLookup(table, slug, site_id) ==
    LET found == {z \in table : z.slug = slug /\ z.site_id = site_id}
    IN  IF found = {} THEN <<>> ELSE <<(CHOOSE z \in found : TRUE).id>>

\* device create --site --zone: the site is looked up, then the zone within
\* it; an unknown zone leaves zone_id None
ZoneDevCreate ==
    \E slug \in ZoneDeviceSlugs, site \in ZoneSiteSlugs \cup {"s9"},
       zone \in {<<>>} \cup {<<z>> : z \in ZoneSlugArgs} :
        /\ IF site \notin ZoneSiteSlugs
           THEN /\ zoneLast' = ZoneEnded("create", slug, site, zone, "exit")
                /\ UNCHANGED zoneDevs
           ELSE IF \E d \in zoneDevs : d.slug = slug
           THEN /\ zoneLast' = ZoneEnded("create", slug, site, zone, "exit")
                /\ UNCHANGED zoneDevs
           ELSE /\ zoneLast' = ZoneEnded("create", slug, site, zone, "return")
                /\ zoneDevs' = zoneDevs \cup
                     {[slug |-> slug, site_id |-> site,
                       zone_id |-> IF zone = <<>> THEN <<>>
                                   ELSE ZoneLookup(zoneTable, zone[1], site)]}
        /\ UNCHANGED <<zoneTable, zdevFrame>>

\* device update --zone (with or without another option): the zone is
\* looked up within the site of the device, "" clears it, and an unknown
\* zone is skipped; with nothing left to write the command exits
ZoneDevUpdate ==
    \E slug \in ZoneDeviceSlugs, other \in BOOLEAN,
       zone \in {<<>>, <<"">>} \cup {<<z>> : z \in ZoneSlugArgs} :
        /\ IF (~other /\ zone = <<>>) \/ ~\E d \in zoneDevs : d.slug = slug
           THEN /\ zoneLast' = ZoneEnded("update", slug, "", zone, "exit")
                /\ UNCHANGED zoneDevs
           ELSE LET device == CHOOSE d \in zoneDevs : d.slug = slug
                    zone_row == IF zone \in {<<>>, <<"">>} THEN <<>>
                                ELSE ZoneLookup(zoneTable, zone[1],
                                                device.site_id)
                    writes == zone = <<"">> \/ zone_row # <<>>
                IN  IF ~other /\ ~writes
                    THEN /\ zoneLast' = ZoneEnded("update", slug,
                                                  device.site_id, zone, "exit")
                         /\ UNCHANGED zoneDevs
                    ELSE /\ zoneLast' = ZoneEnded("update", slug,
                                                  device.site_id, zone,
                                                  "return")
                         /\ zoneDevs' =
                              {IF d.slug = slug /\ writes
                               THEN [d EXCEPT !.zone_id = zone_row]
                               ELSE d : d \in zoneDevs}
        /\ UNCHANGED <<zoneTable, zdevFrame>>

ZdevInit ==
    /\ RepoInit
    /\ SlugIdle
    /\ ListIdle /\ ConnIdle /\ MacIdle /\ DevIdle /\ NetIdle /\ SiteIdle
    /\ PayIdle /\ FamIdle /\ JoinIdle /\ RaceIdle /\ MigIdle
    /\ zoneTable \in SUBSET ZoneRows
    /\ zoneDevs = {}
    /\ zoneLast = ZoneEnded("none", "", "", <<>>, "return")

ZdevNext == ZoneDevCreate \/ ZoneDevUpdate

\* device create and device update with zones in two sites
ZdevSpec == ZdevInit /\ [][ZdevNext]_vars

(* ------------------------------ claims --------------------------------- *)

\* the repository calls that write
WriteOps == {"create", "update", "delete"}

\* the columns of a row
Columns == {"id", "slug", "name", "type", "description", "is_active"}

\* a column of a row in the form payload attributes have (None is <<>>)
ColumnAsOptional(r, k) ==
    CASE k = "id" -> <<r.id>>
      [] k = "slug" -> <<r.slug>>
      [] k = "name" -> <<r.name>>
      [] k = "type" -> <<r.type>>
      [] k = "description" -> r.description
      [] k = "is_active" -> <<r.is_active>>

\* the slug a creation payload supplies or, failing that, derives
SlugOfPayload(data) ==
    IF data.slug # <<>> THEN data.slug[1] ELSE generate_slug(data.name[1])

\* C1: every write call either returns with its row change persisted, or
\* raises with the store holding exactly the rows it held before the call,
\* materializing the returned row included.
C1_WriteIsAtomic ==
    [][last'.op \in WriteOps =>
         \/ /\ last'.kind = "return"
            /\ last'.ret \subseteq organizations'
            /\ last'.op = "create" => last'.ret # {}
            /\ last'.op = "delete" =>
                   RowsWithSlug(organizations', last'.slug) = {}
         \/ /\ last'.kind = "raise"
            /\ organizations' = organizations]_vars

\* C2: update writes every attribute the payload explicitly carries, an
\* explicit None as NULL, and writes no other column.
C2_UpdateAppliesExplicitFields ==
    [][(last'.op = "update" /\ last'.storeError = "") =>
         \A r \in RowsWithSlug(organizations, last'.slug) :
            \E r2 \in organizations' :
               /\ r2.id = r.id
               /\ \A k \in Columns :
                     ColumnAsOptional(r2, k) =
                        IF k \in last'.data.fields_set
                        THEN last'.data[k] ELSE ColumnAsOptional(r, k)]_vars

\* C3: no two rows of the table ever share a slug, and a create whose supplied
\* or derived slug is the slug of an existing row adds no row.
C3_SlugUnique ==
    [][/\ \A r1, r2 \in organizations' : r1.slug = r2.slug => r1 = r2
       /\ (/\ last'.op = "create"
           /\ RowsWithSlug(organizations, SlugOfPayload(last'.data)) # {})
          => organizations' = organizations]_vars

\* C3 witness: a create of a second name that derives the slug of an existing
\* row was refused
C3_Witness ==
    /\ last.op = "create"
    /\ last.error = "UniqueViolation"
    /\ last.data.slug = <<>>
    /\ \E r \in organizations :
          /\ r.slug = generate_slug(last.data.name[1])
          /\ generate_slug(r.name) = r.slug
          /\ r.name # last.data.name[1]

\* C4: an error the store raises during a write reaches the caller as that
\* error, and the store is left as it was before the call.
C4_StoreErrorPropagates ==
    [][(last'.op \in WriteOps /\ last'.storeError # "") =>
          /\ last'.kind = "raise"
          /\ last'.error = last'.storeError
          /\ organizations' = organizations]_vars

\* C4 witness: a create hit the unique constraint while a row was stored
C4_Witness ==
    /\ last.op = "create"
    /\ last.storeError = "UniqueViolation"
    /\ last.kind = "raise"
    /\ organizations # {}

\* the pattern ^[a-z0-9]+(-[a-z0-9]+)*$|^$ : empty, or lower-case letters and
\* digits with single hyphens between them
MatchesSlugPattern(s) ==
    \/ s = <<>>
    \/ /\ \A i \in DOMAIN s : IsAlnum(s[i]) \/ s[i] = "-"
       /\ s[1] # "-"
       /\ s[Len(s)] # "-"
       /\ \A i \in 1..(Len(s) - 1) : ~(s[i] = "-" /\ s[i + 1] = "-")

\* C5: generate_slug(N) is empty or lower-case letters and digits joined by
\* single hyphens, and generate_slug applied to its own result returns it.
C5_SlugPatternAndIdempotent ==
    /\ slugPc \in {"done", "again"} => MatchesSlugPattern(slugOut)
    /\ slugPc = "again" => slugAgain = slugOut

\* C5 witness: a name with upper case and punctuation was slugged twice
C5_Witness ==
    /\ slugPc = "again"
    /\ slugIn = <<"'", "A", " ", "-">>
    /\ slugAgain = <<"a">>

\* what the character at position i of the lower-cased name l contributes to
\* the reference slug: itself when it is in [a-z0-9]; one hyphen when it
\* opens a run of other characters that has a character of [a-z0-9]
\* somewhere before it and somewhere after it; nothing otherwise
ReferencePiece(l, i) ==
    IF IsAlnum(l[i]) THEN <<l[i]>>
    ELSE IF /\ i > 1
            /\ IsAlnum(l[i - 1])
            /\ \E j \in (i + 1)..Len(l) : IsAlnum(l[j])
         THEN <<"-">>
         ELSE <<>>

\* the pieces of positions 1..i, in order
RECURSIVE ReferencePieces(_, _)
ReferencePieces(l, i) ==
    IF i = 0 THEN <<>>
    ELSE ReferencePieces(l, i - 1) \o ReferencePiece(l, i)

\* the reference derivation of a slug: each maximal run of characters outside
\* [a-z0-9] of the lower-cased name becomes one hyphen, runs at either end
\* become nothing
ReferenceSlug(name) == ReferencePieces(Lower(name), Len(name))

\* C6: generate_slug equals the reference derivation on every name.
C6_SlugEqualsReference ==
    slugPc \in {"done", "again"} => slugOut = ReferenceSlug(slugIn)

\* C6 witness: a run of a space and an apostrophe between two letters became
\* one hyphen
C6_Witness ==
    /\ slugPc = "done"
    /\ slugIn = <<"A", " ", "'", "b">>
    /\ slugOut = <<"a", "-", "b">>

\* C7: a create that returns has persisted a row whose slug is
\* generate_slug(name) when the payload has no slug, and the payload's slug
\* when it has one.
C7_CreateSlug ==
    (last.op = "create" /\ last.kind = "return") =>
        \E r \in organizations :
            /\ last.ret = {r}
            /\ r.name = last.data.name[1]
            /\ r.slug = IF last.data.slug = <<>>
                        THEN generate_slug(last.data.name[1])
                        ELSE last.data.slug[1]

\* C7 witness: a create without a slug stored the slug derived from the name
C7_Witness ==
    /\ last.op = "create"
    /\ last.kind = "return"
    /\ last.data.slug = <<>>
    /\ last.data.name = << <<"A", " ", "b">> >>
    /\ \E r \in organizations :
          r.name = <<"A", " ", "b">> /\ r.slug = <<"a", "-", "b">>

C9_UpdateFrame ==
    [][last'.op = "update" =>
         /\ {r.id : r \in organizations'} = {r.id : r \in organizations}
         /\ \A r \in organizations :
               r.slug # last'.slug => r \in organizations'
         /\ \A r \in RowsWithSlug(organizations, last'.slug) :
               \E r2 \in organizations' :
                  /\ r2.id = r.id
                  /\ \A k \in Columns \ last'.data.fields_set :
                        ColumnAsOptional(r2, k) = ColumnAsOptional(r, k)]_vars

\* C9 witness: an update that carried only a name changed that name on one of
\* two rows
C9_Witness ==
    /\ last.op = "update"
    /\ last.kind = "return"
    /\ last.data.fields_set = {"name"}
    /\ Cardinality(organizations) = 2
    /\ \E r \in last.ret :
          /\ r.name # <<"A", " ", "b">>
          /\ r.description = <<"d">>
          /\ \E o \in organizations : o.slug # r.slug /\ o.name = <<"A", " ", "b">>

KeyedOps == {"get_by_id", "get_by_slug", "update", "delete", "exists"}

\* no row of the table has the key the call was given
KeyAbsent(table, call) ==
    IF call.op = "get_by_id"
    THEN RowsWithId(table, call.id) = {}
    ELSE RowsWithSlug(table, call.slug) = {}

\* C11: a lookup, update, delete or existence test on an id or slug that no
\* row has returns nothing (false for delete and exists), raises nothing
\* while the store answers, and leaves the store as it was
C11_AbsentKeyIsQuiet ==
    [][(/\ last'.op \in KeyedOps
        /\ last'.storeError = ""
        /\ KeyAbsent(organizations, last'))
       => (/\ last'.kind = "return"
           /\ last'.ret = {}
           /\ last'.flag = FALSE
           /\ organizations' = organizations)]_vars

\* an update with fields to set was called on a slug no row has, while the
\* table holds other rows
C11_Witness ==
    /\ last.op = "update"
    /\ last.data.fields_set # {}
    /\ last.storeError = ""
    /\ organizations # {}
    /\ KeyAbsent(organizations, last)

\* the slugs the rows of a table carry
SlugsOf(table) == {r.slug : r \in table}

\* C12: delete(slug) returns true exactly when a row with that slug existed
\* before the call; after a delete that returned true get_by_slug(slug)
\* returns nothing and exists(slug) is false, and a slug no row carries
\* stays absent until a create brings it in
C12_DeleteResult ==
    [][/\ (last'.op = "delete" /\ last'.storeError = "")
          => /\ last'.kind = "return"
             /\ last'.flag = (RowsWithSlug(organizations, last'.slug) # {})
             /\ last'.flag
                  => LET g == GetBySlugOutcome(organizations', last'.slug,
                                              "none")
                         x == ExistsOutcome(organizations', last'.slug, "none")
                     IN  /\ g.kind = "return" /\ g.ret = {}
                         /\ x.kind = "return" /\ x.flag = FALSE
       /\ (SlugsOf(organizations') \ SlugsOf(organizations) # {})
          => last'.op = "create"]_vars

\* a delete returned true and left another row in the table
C12_Witness ==
    /\ last.op = "delete"
    /\ last.flag
    /\ organizations # {}

\* the rows of the table equal to the filter values in every filtered column
EqualInFilteredColumns(table, filters) ==
    {r \in table : \A k \in filters.cols : r[k] = filters.vals[k]}

\* C13: list_all returns only stored rows that equal the filter value in
\* every filtered column, in ascending order of the order_by column, at most
\* limit of them; when no row matches it returns the empty sequence and does
\* not raise
C13_ListAll ==
    /\ listed.kind = "return"
         => /\ \A i \in DOMAIN listed.rows :
                  listed.rows[i]
                     \in EqualInFilteredColumns(organizations, listed.filters)
            /\ \A i, j \in DOMAIN listed.rows :
                  i < j => OrderLeq(listed.rows[i], listed.rows[j],
                                    listed.order_by)
            /\ Len(listed.rows) <= listed.limit
    /\ (/\ listed.kind # "none"
        /\ listed.error # OperationalError
        /\ EqualInFilteredColumns(organizations, listed.filters) = {})
         => (listed.kind = "return" /\ listed.rows = <<>>)

\* a list_all filtered on two columns returned as many rows as the limit
\* allows, fewer than match
C13_Witness ==
    /\ listed.kind = "return"
    /\ Cardinality(listed.filters.cols) = 2
    /\ Len(listed.rows) = listed.limit
    /\ Cardinality(EqualInFilteredColumns(organizations, listed.filters))
         > listed.limit

\* C14: whenever no operation is running, no connection is open: every
\* connection get_connection opened was closed when its operation ended,
\* whether that returned, raised or left the command early
C14_NoConnectionLeftOpen == connPc = "idle" => connOpen = 0

\* a command, not the first operation run, has left its with-block through
\* typer.Exit
C14_Witness ==
    /\ connPc = "idle"
    /\ connEnd = "exit"
    /\ connStarted >= 2

\* six groups of two upper-case hex digits separated by colons
IsCanonicalMac(s) ==
    /\ Len(s) = MacHexLen + (MacHexLen \div 2) - 1
    /\ \A i \in 1 .. Len(s) :
          IF i % 3 = 0 THEN s[i] = ":"
          ELSE s[i] \in {"0", "9", "A", "F"}

\* the hex digits of a text in upper case, everything else dropped
UpperHexDigitsOf(s) ==
    LET d == SelectSeq(s, LAMBDA c : c \in HexDigits)
    IN  [i \in 1 .. Len(d) |->
           IF d[i] = "a" THEN "A" ELSE IF d[i] = "f" THEN "F" ELSE d[i]]

\* C16: the MAC validator accepts a value exactly when it holds 12 hex
\* digits; what it returns is canonical and carries those digits in upper
\* case, so it is the same for every spelling of them, and validating a
\* returned value again returns it unchanged
C16_MacValidation ==
    /\ (macPc \in {"done", "again"} /\ macIn # <<>>)
         => /\ macOut.ok <=> (Len(UpperHexDigitsOf(macIn[1])) = MacHexLen)
            /\ macOut.ok
                 => /\ IsCanonicalMac(macOut.value[1])
                    /\ UpperHexDigitsOf(macOut.value[1])
                         = UpperHexDigitsOf(macIn[1])
    /\ macPc = "again" => macAgain = macOut

\* a lower-case, dash-separated spelling of 12 hex digits was accepted and
\* its result validated again
C16_Witness ==
    /\ macPc = "again"
    /\ macIn # <<>>
    /\ macIn[1][1] = "a"
    /\ macIn[1][3] = "-"
    /\ macOut.ok
    /\ macOut.value # macIn

\* C15: every stored device MAC address is absent or canonical
C15_StoredMacCanonical ==
    \A d \in devices :
        d.mac_address = <<>> \/ IsCanonicalMac(d.mac_address[1])

\* C20: every stored device has an operational status of DeviceStatus
C20_StatusIsOperational == \A d \in devices : d.status \in DeviceStatus

\* C17: every stored network's vlan_id is absent or within 1..4094
C17_StoredVlanInRange ==
    \A n \in networks :
        n.vlan_id = <<>> \/ n.vlan_id[1] \in VlanMin .. VlanMax

\* C18: a NetworkCreate payload with VLAN id v (and a known network type) is
\* accepted exactly when 1 <= v <= 4094
C18_VlanAcceptedIffInRange ==
    (/\ netLast.op = "create"
     /\ netLast.vlan # <<>>
     /\ netLast.type[1] \in NetworkType)
      => (netLast.accepted <=> netLast.vlan[1] \in VlanMin .. VlanMax)

\* a NetworkCreate payload with VLAN id 4094 was accepted and its row stored
C18_Witness ==
    /\ netLast.op = "create"
    /\ netLast.vlan = <<VlanMax>>
    /\ netLast.accepted
    /\ netLast.kind = "return"
    /\ \E n \in networks : n.vlan_id = <<VlanMax>>

\* C19: a create or update payload that carries a site type outside SiteType
\* is rejected when it is constructed and no statement for it reaches the
\* store
C19_UnknownTypeRejected ==
    (/\ siteLast.op \in {"create", "update"}
     /\ siteLast.type # <<>>
     /\ siteLast.type[1] \notin SiteType)
      => (~siteLast.accepted /\ ~siteLast.sent)

\* the usage statuses of a device
UsageStatus == {"active", "stored", "failed", "retired", "pending"}

\* C21: a DeviceCreate built without a usage status has usage status
\* "active", and DeviceCreate and DeviceUpdate reject a usage status outside
\* UsageStatus
C21_PayloadUsageStatus ==
    /\ (built.model = "DeviceCreate" /\ built.ok /\ built.usage = <<>>)
         => built.usage_status = <<"active">>
    /\ (built.model \in DeviceModels /\ built.usage # <<>>
        /\ built.usage[1] \notin UsageStatus)
         => ~built.ok

\* the lifecycle commands other than retire
OtherLifecycleOps == {"store", "activate", "fail", "pending"}

\* C22: a device whose usage status is "retired" is still "retired" after
\* any store, activate, fail or pending command
C22_RetiredStaysRetired ==
    [][devLast'.op \in OtherLifecycleOps
       => \A d \in devices :
            d.usage_status = "retired"
              => \A x \in DevicesWithSlug(devices', d.slug) :
                   x.usage_status = "retired"]_vars

\* the parent a row names is stored
HasParent(rows, orgs, x) ==
    IF x.kind = "site"
    THEN x.parent \in orgs
    ELSE \E s \in rows : s.kind = "site" /\ s.slug = x.parent

\* C23: a create command for a site, zone, device or network that names a
\* parent slug no row has exits with code 1 and leaves the store unchanged,
\* and after every command each stored row names a stored parent
C23_CreateNeedsParent ==
    [][/\ (/\ famLast'.op \in SiteChildren \cup {"site"}
           /\ ~HasParent(famRows, famOrgs,
                          [kind |-> famLast'.op, parent |-> famLast'.parent]))
          => /\ famLast'.kind = "exit"
             /\ famLast'.code = 1
             /\ famRows' = famRows
             /\ famOrgs' = famOrgs
       /\ \A x \in famRows' : HasParent(famRows', famOrgs', x)]_vars

\* a device create that named a site no row has exited, while another site
\* and rows below it are stored
C23_Witness ==
    /\ famLast.op = "device"
    /\ famLast.kind = "exit"
    /\ ~\E s \in famRows : s.kind = "site" /\ s.slug = famLast.parent
    /\ \E x \in famRows : x.kind = "zone"

\* the active devices whose zone (or category) reference is NULL
Ungrouped(db, group_by) ==
    {d \in db.devices :
        /\ d.is_active
        /\ (IF group_by = "zone" THEN d.zone_id ELSE d.category_id) = <<>>}

\* C24: get_with_details returns a stored device even when it has no zone
\* or category, with NULL for the missing names; get_with_site_count
\* returns a stored organization that has no sites with site_count 0; and
\* count_by_group counts the devices without a group value under
\* 'Unassigned'
C24_AbsentRelatedRows ==
    /\ joinOut.query = "details"
         => \A d \in joinDb.devices :
              d.id = joinOut.key
                => /\ Cardinality(joinOut.rows) = 1
                   /\ \A x \in joinOut.rows :
                        /\ (d.zone_id = <<>>) <=> (x.zone_name = <<>>)
                        /\ (d.category_id = <<>>) <=> (x.category_name = <<>>)
    /\ (joinOut.query = "site_count" /\ joinOut.key \in {1, 2})
         => joinOut.rows =
              {[id |-> joinOut.key,
                site_count |->
                  Cardinality({s \in joinDb.sites :
                                 s.organization_id = joinOut.key})]}
    /\ joinOut.query \in {"zone", "category"}
         => LET n == Cardinality(Ungrouped(joinDb, joinOut.query))
            IN  IF n = 0
                THEN \A x \in joinOut.rows : x.group_name # "Unassigned"
                ELSE [group_name |-> "Unassigned", count |-> n]
                       \in joinOut.rows

\* get_with_details returned a device that has neither zone nor category,
\* from a database that also holds a device with both
C24_Witness ==
    /\ joinOut.query = "details"
    /\ \E x \in joinOut.rows : x.zone_name = <<>> /\ x.category_name = <<>>
    /\ \E d \in joinDb.devices : d.zone_id # <<>> /\ d.category_id # <<>>

\* C25: in every stored device the storage location is set only while the
\* usage status is "stored", and the failure date, failure reason and RMA
\* reference are set only while it is "failed"
C25_LifecycleFieldsMatchUsage ==
    \A d \in devices :
        /\ d.storage_location # <<>> => d.usage_status = "stored"
        /\ (\/ d.failure_date # <<>>
            \/ d.failure_reason # <<>>
            \/ d.rma_reference # <<>>) => d.usage_status = "failed"

\* C26: a device command that looks the device up and then updates it
\* prints its success message only if its UPDATE changed a device row,
\* also when another process deletes the device meanwhile
C26_SuccessMeansUpdated ==
    raceLast.printed = "ok" => raceLast.rowcount >= 1

\* the sequence is strictly ascending
Ascending(s) == \A i, j \in DOMAIN s : i < j => s[i] < s[j]

\* the files of the directory that precede the given one
FilesBefore(f) == {x \in Range(migFiles) : x < f}

\* C27: db migrate executes the migration files in ascending order of
\* their names and commits each before it executes the next; when a file
\* fails it is rolled back, no later file is executed, the exit code is 1
\* and exactly the earlier files are committed; with --dry-run nothing is
\* executed and no connection is opened
C27_MigrateInOrder ==
    /\ Ascending(migRun)
    /\ \A i \in DOMAIN migRun : FilesBefore(migRun[i]) \subseteq Range(migRun)
    /\ \/ migRun = migDone \o migPending
       \/ /\ migPc = "done"
          /\ migPending = <<>>
          /\ migRun # <<>>
          /\ migRun[Len(migRun)] \in migFails
          /\ migRun = Append(migDone, migRun[Len(migRun)])
          /\ migEnd.code = <<1>>
    /\ Len(migPending) <= 1
    /\ (migPc = "done" /\ migEnd.code = <<0>> /\ ~migEnd.dry_run)
         => /\ Range(migDone) = Range(migFiles)
            /\ migPending = <<>>
    /\ migEnd.dry_run => migRun = <<>> /\ migDone = <<>> /\ ~migConn

\* db migrate ended with exit code 1 on the second of three files, which
\* glob had not yielded in ascending order
C27_Witness ==
    /\ migPc = "done"
    /\ migEnd.code = <<1>>
    /\ Len(migDone) = 1
    /\ Len(migRun) = 2
    /\ Len(migFiles) = 3
    /\ ~Ascending(migFiles)

\* the zone a device refers to is a stored zone of the site of the device
ZoneOfOwnSite(table, d) ==
    d.zone_id # <<>>
      => \E z \in table : z.id = d.zone_id[1] /\ z.site_id = d.site_id

\* the command named a zone slug that no zone of the site has
ZoneNotInSite(table, ended) ==
    /\ ended.zone \notin {<<>>, <<"">>}
    /\ ~\E z \in table : z.slug = ended.zone[1] /\ z.site_id = ended.site

\* C28: after every device create and update each device that has a zone
\* has a zone of its own site; a create that names a zone slug not in the
\* site stores the device without a zone, and an update that names one
\* leaves the zone of the device as it was
C28_ZoneOfOwnSite ==
    [][/\ \A d \in zoneDevs' : ZoneOfOwnSite(zoneTable', d)
       /\ (/\ zoneLast'.op = "create"
           /\ zoneLast'.kind = "return"
           /\ ZoneNotInSite(zoneTable, zoneLast'))
          => \E d \in zoneDevs' \ zoneDevs :
               d.slug = zoneLast'.slug /\ d.zone_id = <<>>
       /\ (/\ zoneLast'.op = "update"
           /\ ZoneNotInSite(zoneTable, zoneLast'))
          => zoneDevs' = zoneDevs]_vars

\* a device of site s1 was created with --zone z2, a slug only a zone of
\* site s2 has, and stored without a zone
C28_Witness ==
    /\ zoneLast = ZoneEnded("create", "d1", "s1", <<"z2">>, "return")
    /\ \E z \in zoneTable : z.slug = "z2"
    /\ \E d \in zoneDevs : d.slug = "d1" /\ d.zone_id = <<>>

\* the id and the slug of every row of the table
Keys(table) == {<<r.id, r.slug>> : r \in table}

\* C29: update changes the id and the slug of no row, whatever the payload
\* carries, a new name included: the rows the slug selects after the call
\* are the rows it selected before, and a returned entity has the slug the
\* call was given and the id the row had
C29_UpdateKeepsIdAndSlug ==
    [][last'.op = "update" =>
         /\ Keys(organizations') = Keys(organizations)
         /\ Keys(RowsWithSlug(organizations', last'.slug)) =
               Keys(RowsWithSlug(organizations, last'.slug))
         /\ last'.kind = "return" =>
               \A r \in last'.ret :
                  /\ r.slug = last'.slug
                  /\ <<r.id, r.slug>> \in Keys(organizations)]_vars

\* an update gave a row a name that derives another slug than the one
\* the row has, and returned the row under its slug
C29_Witness ==
    /\ last.op = "update"
    /\ last.kind = "return"
    /\ "name" \in last.data.fields_set
    /\ \E r \in last.ret :
          /\ r \in organizations
          /\ r.name # <<>>
          /\ generate_slug(r.name) # r.slug

\* C30: the slug generate_slug derives from a name of at least one and at
\* most NameMaxLength characters is not empty
C30_DerivedSlugNotEmpty ==
    (/\ slugPc \in {"done", "again"}
     /\ Len(slugIn) >= 1
     /\ Len(slugIn) <= NameMaxLength) => slugOut # <<>>

====
